---- MODULE Spec2Model ----
(***************************************************************************)
(* The relational store of the comic e-learning backend (modules, panels,  *)
(* exercises, progress records, answers) and the request handlers that     *)
(* write it.  Every handler runs inside one pony db_session: its writes    *)
(* reach the store at commit() and are rolled back when it raises.         *)
(*                                                                         *)
(* Spec      every handler is one atomic step (one request at a time).     *)
(* SpecConc  save_student_answers requests served by independent workers   *)
(*           on the shared store, interleaved at the handler's database    *)
(*           round trips (lookup, flush, flush, commit).                   *)
(*                                                                         *)
(* Abstractions: text columns are left out; an exercise's options list is  *)
(* kept as its length (every check of the handlers on the list is a check  *)
(* of an index against that length); ids drawn by the code from the clock  *)
(* or the caller are drawn from small sets.                                *)
(***************************************************************************)
EXTENDS Integers, Sequences, FiniteSets, TLC

----------------------------------------------------------------------------
\* Bounds of the model.
MaxAnswers == 2
MaxOptions == 2
MaxProgressId == 2
MaxQuestions == 1
MaxPanels == 1
MaxNewExercises == 1

\* Points added per correct answer by DatabaseService.save_user_answer.
PointsPerCorrect == 10

ModuleIds == {"m1", "m2"}
ExerciseIds == {"e1", "e2"}
Teachers == {"t1"}
Students == {"s1"}
UserIds == Teachers \cup Students
Requests == {"r1", "r2"}

\* A request without module_id (data.get('module_id') is None).
NoModule == "none"
\* UserProgress.get(...) returned None.
NoProgress == 0
\* No request holds the write transaction.
NoWriter == "none"
\* A key that the request body does not have.
NotGiven == 0 - 2
\* A selected_answer that is JSON null: UserAnswer.selected_answer is Required(int).
JsonNull == 0 - 1

VARIABLES
    users,       \* User rows: username -> [role, is_active]
    modules,     \* LearningModule rows: the set of ids
    panels,      \* ComicPanel rows: module id -> sequence of panel_number
    exercises,   \* Exercise rows: id -> [module, options, correct_answer]
    progress,    \* UserProgress rows: id -> [module, user, total_score, ...]
    answers,     \* UserAnswer rows: progress id -> sequence of rows, in insertion order
    nextPid,     \* next auto-increment id of UserProgress
    last,        \* the HTTP status of the last response (500: the call raised)
    pc,          \* SpecConc: where each request is in save_student_answers
    req,         \* SpecConc: the locals of each request
    writer,      \* SpecConc: the request holding the store's write transaction
    tx,          \* SpecConc: the uncommitted tables of the writer
    call,        \* the argument of a service or read-only call (<<>>: none made)
    result       \* <<the value the call returned>> (<<>>: not returned yet)

store == <<progress, answers, nextPid>>
content == <<modules, panels, exercises>>
svc == <<call, result>>
conc == <<pc, req, writer, tx, svc>>
vars == <<users, modules, panels, exercises, progress, answers, nextPid, last, pc, req, writer, tx,
          call, result>>

----------------------------------------------------------------------------
\* Helpers on finite functions.
Restrict(f, S) == [x \in S |-> f[x]]

Range(s) == {s[i] : i \in 1..Len(s)}

SeqsUpTo(S, n) == UNION {[1..k -> S] : k \in 0..n}

\* The tables a save_student_answers transaction writes.
Tables(p, a, n) == [progress |-> p, answers |-> a, nextPid |-> n]

NoTables == Tables(<<>>, <<>>, 0)

----------------------------------------------------------------------------
\* Request bodies of save_student_answers: data['user_answers'] and data['score'].
SelectedValues == {0, MaxOptions}
Scores == {10, 50}

Answer(e, sel, c) == [exercise_id |-> e, selected_answer |-> sel, is_correct |-> c]

\* The answers a body is made of: the first option flagged correct, the first option
\* flagged incorrect, an index past the last option flagged correct, and an answer to
\* an exercise id that may not be stored.
AnswerData ==
    {Answer("e1", 0, TRUE), Answer("e1", 0, FALSE), Answer("e1", MaxOptions, TRUE),
     Answer("e2", 0, FALSE)}

Submissions == [user_answers : SeqsUpTo(AnswerData, MaxAnswers), score : Scores]

\* A body whose second answer has "selected_answer": null.
NullSubmission == [user_answers |-> <<Answer("e1", 0, TRUE), Answer("e1", JsonNull, FALSE)>>,
                   score |-> 10]

\* The bodies tried where the handlers that write modules and exercises act too.
BasicSubmissions ==
    {[user_answers |-> <<Answer(e, 0, TRUE)>>, score |-> 10] : e \in ExerciseIds}
    \cup {NullSubmission}

\* The bodies tried by the interleaved requests.
ConcSubmissions ==
    {[user_answers |-> <<Answer("e1", 0, TRUE)>>, score |-> 10],
     [user_answers |-> <<Answer("e1", MaxOptions, FALSE), Answer("e2", 0, FALSE)>>, score |-> 50],
     NullSubmission}

\* correct_count = sum(1 for ans in user_answers_data if ans.get('is_correct', False))
CountCorrect(uad) == Cardinality({i \in 1..Len(uad) : uad[i].is_correct})

\* A total that counts the answers flagged incorrect only.
TotalQuestionsIncorrect(uad) == Cardinality({i \in 1..Len(uad) : ~uad[i].is_correct})

\* A total that counts each distinct answer of the body once.
TotalQuestionsDistinct(uad) == Cardinality(Range(uad))

\* total_questions = len(user_answers_data)
TotalQuestions(uad) == Len(uad)

\* UserProgress.get(module=module, user=user): the rows that match.
LookupProgress(prog, m, u) == {p \in DOMAIN prog : prog[p].module = m /\ prog[p].user = u}

\* The id of the record the handler works on: the one found, else the one INSERTed.
TargetPid(t, found) == IF found # NoProgress THEN found ELSE t.nextPid

\* if progress: update it; else: create it; flush().
UpdateOrCreate(t, found, m, u, score, cc, tq) ==
    IF found # NoProgress
    THEN [t EXCEPT !.progress[found] =
              [@ EXCEPT !.total_score = score, !.correct_answers = cc,
                        !.total_questions = tq, !.completed = TRUE]]
    ELSE [t EXCEPT !.progress = (t.nextPid :> [module |-> m, user |-> u, total_score |-> score,
                                               correct_answers |-> cc, total_questions |-> tq,
                                               completed |-> TRUE]) @@ @,
                   !.answers = (t.nextPid :> <<>>) @@ @,
                   !.nextPid = @ + 1]

\* A retry that keeps the answers of the earlier submissions.
KeepOldAnswers(t, pid) == t

\* old_answers = UserAnswer.select(a.progress.id == progress_id); each .delete(); flush().
DeleteOldAnswers(t, pid) == [t EXCEPT !.answers[pid] = <<>>]

\* The answers of the request whose exercise_id names a stored exercise (Exercise.get).
KeptAnswers(uad, exs) == SelectSeq(uad, LAMBDA a : a.exercise_id \in DOMAIN exs)

\* UserAnswer(progress, exercise, selected_answer=..., is_correct=answer_data.get('is_correct'))
NewAnswerRows(uad, exs) ==
    LET kept == KeptAnswers(uad, exs)
    IN [i \in 1..Len(kept) |-> [exercise |-> kept[i].exercise_id,
                                selected_answer |-> kept[i].selected_answer,
                                is_correct |-> kept[i].is_correct]]

\* The UserAnswer constructor raises on a selected_answer that is null.
InsertRaises(uad, exs) == \E i \in 1..Len(uad) :
    uad[i].exercise_id \in DOMAIN exs /\ uad[i].selected_answer = JsonNull

InsertAnswers(t, pid, uad, exs) == [t EXCEPT !.answers[pid] = @ \o NewAnswerRows(uad, exs)]

\* The whole transaction of save_student_answers on tables t.
SubmitTables(t, found, m, u, d, exs) ==
    LET t1 == UpdateOrCreate(t, found, m, u, d.score, CountCorrect(d.user_answers),
                             TotalQuestions(d.user_answers))
        pid == TargetPid(t, found)
    IN InsertAnswers(DeleteOldAnswers(t1, pid), pid, d.user_answers, exs)

\* POST /api/training/save-student-answers, served without interleaving.
SaveStudentAnswers(u, m, d) ==
    LET found == LookupProgress(progress, m, u)
        t == Tables(progress, answers, nextPid)
    IN /\ u \in DOMAIN users
       /\ UNCHANGED <<users, content, conc>>
       /\ IF users[u].role # "student"
          THEN last' = 403 /\ UNCHANGED store
          ELSE IF m = NoModule
          THEN last' = 400 /\ UNCHANGED store
          ELSE IF m \notin modules
          THEN last' = 404 /\ UNCHANGED store
          ELSE IF Cardinality(found) > 1 \/ InsertRaises(d.user_answers, exercises)
          THEN last' = 500 /\ UNCHANGED store
          ELSE LET f == IF found = {} THEN NoProgress ELSE CHOOSE p \in found : TRUE
                   t2 == SubmitTables(t, f, m, u, d, exercises)
               IN /\ f # NoProgress \/ nextPid <= MaxProgressId
                  /\ progress' = t2.progress
                  /\ answers' = t2.answers
                  /\ nextPid' = t2.nextPid
                  /\ last' = 200

----------------------------------------------------------------------------
\* Request bodies of the module-saving handlers.
PanelInputs == SeqsUpTo({NotGiven} \cup (1..MaxPanels), MaxPanels)
OptionCounts == 1..MaxOptions
CorrectInputs == (0 - 1)..MaxOptions
ExerciseData == [id : ExerciseIds, options : OptionCounts, correct : CorrectInputs]
ExerciseInputs == SeqsUpTo(ExerciseData, MaxNewExercises)

\* get_current_user_from_token: the token names a stored user.
Authenticated(u) == u \in DOMAIN users

\* auth_service.get_current_active_teacher: 403 for an inactive user or a student.
IsActiveTeacher(u) == users[u].is_active /\ users[u].role = "teacher"

\* panel_number = panel_data.get('panel_number', panels_saved + 1)
PanelNumbers(pnl) == [i \in 1..Len(pnl) |-> IF pnl[i] = NotGiven THEN i ELSE pnl[i]]

\* INSERT of exercise rows fails on a primary key already used (Exercise.id is the key).
KeyClash(exs, stored) ==
    \/ \E i \in 1..Len(exs) : exs[i].id \in DOMAIN stored
    \/ \E i, j \in 1..Len(exs) : i # j /\ exs[i].id = exs[j].id

\* Exercise(id=..., module=module, options=ex_data['options'], correct_answer=ex_data['correct'])
ExerciseRows(m, exs) ==
    [e \in {exs[i].id : i \in 1..Len(exs)} |->
        LET d == CHOOSE x \in Range(exs) : x.id = e
        IN [module |-> m, options |-> d.options, correct_answer |-> d.correct]]

\* The LearningModule constructor: module_name is Required(str), so a call that
\* passes none raises ValueError before any row is written.
LearningModuleRaises(has_module_name) == ~has_module_name

\* POST /api/training/save-module-exercises
SaveModuleWithExercises(u, mid, pnl, exs) ==
    /\ Authenticated(u)
    /\ UNCHANGED <<users, store, conc>>
    /\ IF users[u].role # "teacher"
       THEN last' = 403 /\ UNCHANGED content
       ELSE IF LearningModuleRaises(TRUE) \/ mid \in modules \/ KeyClash(exs, exercises)
       THEN last' = 500 /\ UNCHANGED content
       ELSE /\ modules' = modules \cup {mid}
            /\ panels' = (mid :> PanelNumbers(pnl)) @@ panels
            /\ exercises' = ExerciseRows(mid, exs) @@ exercises
            /\ last' = 200

\* POST /api/training/create-module: LearningModule(id, classic_text, modern_text,
\* comic_script, created_at, updated_at) is built without module_name; what follows
\* the constructor in the handler is never reached.
CreateModule(u) ==
    /\ Authenticated(u)
    /\ UNCHANGED <<users, content, store, conc>>
    /\ IF users[u].role # "teacher"
       THEN last' = 403
       ELSE LearningModuleRaises(FALSE) /\ last' = 500

\* POST /api/training/save-all-results: the same constructor call, for any role.
SaveAllResults(u) ==
    /\ Authenticated(u)
    /\ LearningModuleRaises(FALSE)
    /\ UNCHANGED <<users, content, store, conc>>
    /\ last' = 500

\* POST /api/modules/save-module -> db_service.create_module(classic_text, modern_text,
\* comic_script): the same constructor call.
SaveModule(u) ==
    /\ Authenticated(u)
    /\ UNCHANGED <<users, content, store, conc>>
    /\ IF ~IsActiveTeacher(u)
       THEN last' = 403
       ELSE LearningModuleRaises(FALSE) /\ last' = 500

\* schemas.Exercise.validate_correct_answer: raises when v >= len(options).
validate_correct_answer(d) == d.correct < d.options

\* POST /api/modules/save-exercises -> db_service.save_exercises
SaveExercises(u, m, exs) ==
    /\ Authenticated(u)
    /\ UNCHANGED <<users, modules, panels, store, conc>>
    /\ IF ~IsActiveTeacher(u)
       THEN last' = 403 /\ UNCHANGED exercises
       ELSE IF \/ \E i \in 1..Len(exs) : ~validate_correct_answer(exs[i])
               \/ (exs # <<>> /\ m \notin modules)
               \/ KeyClash(exs, exercises)
       THEN last' = 500 /\ UNCHANGED exercises
       ELSE /\ exercises' = ExerciseRows(m, exs) @@ exercises
            /\ last' = 200

\* The Exercise entity constructor raises TypeError on a keyword that is no attribute
\* of the entity (models.Exercise has no difficulty).
ExerciseRaises(keywords) == keywords \ {"id", "module", "type", "question", "options",
                                        "correct_answer", "explanation"} # {}

\* POST /api/modules/{module_id}/exercises
AddExerciseToModule(u, m, d) ==
    /\ Authenticated(u)
    /\ UNCHANGED <<users, content, store, conc>>
    /\ IF ~IsActiveTeacher(u)
       THEN last' = 403
       ELSE IF m \notin modules
       THEN last' = 404
       ELSE IF d.correct < 0 \/ d.correct >= d.options
       THEN last' = 400
       ELSE ExerciseRaises({"id", "module", "type", "difficulty", "question", "options",
                            "correct_answer", "explanation"}) /\ last' = 500

\* PUT /api/modules/exercises/{exercise_id}: 'options' first, then 'correct_answer'
\* checked against the options just stored; an HTTPException rolls the session back.
UpdateExercise(u, e, opts, correct) ==
    LET current_options == IF opts # NotGiven THEN opts ELSE exercises[e].options
    IN /\ Authenticated(u)
       /\ UNCHANGED <<users, modules, panels, store, conc>>
       /\ IF ~IsActiveTeacher(u)
          THEN last' = 403 /\ UNCHANGED exercises
          ELSE IF e \notin DOMAIN exercises
          THEN last' = 404 /\ UNCHANGED exercises
          ELSE IF correct # NotGiven /\ (correct < 0 \/ correct >= current_options)
          THEN last' = 400 /\ UNCHANGED exercises
          ELSE /\ exercises' = [exercises EXCEPT ![e] =
                     [@ EXCEPT !.options = current_options,
                               !.correct_answer = IF correct # NotGiven THEN correct ELSE @]]
               /\ last' = 200

----------------------------------------------------------------------------
\* The rows that hang on module m.
ExercisesOf(m) == {e \in DOMAIN exercises : exercises[e].module = m}

ProgressOf(m) == {p \in DOMAIN progress : progress[p].module = m}

\* An exercise deletion that leaves the answers naming the exercise in place.
WithAnswersLeft(rows, exs) == rows

\* exercise.delete(): Exercise.user_answers is the reverse of the Required
\* UserAnswer.exercise, so the answers that name the exercise go with it.
WithoutAnswersOn(rows, exs) == SelectSeq(rows, LAMBDA a : a.exercise \notin exs)

\* DatabaseService.delete_module: panels, exercises, the module's progress rows with
\* their answers, then the module; no check of existing answers.
DeleteModuleRows(m) ==
    LET keep == DOMAIN progress \ ProgressOf(m)
    IN /\ modules' = modules \ {m}
       /\ panels' = Restrict(panels, DOMAIN panels \ {m})
       /\ exercises' = Restrict(exercises, DOMAIN exercises \ ExercisesOf(m))
       /\ progress' = Restrict(progress, keep)
       /\ answers' = [p \in keep |-> WithoutAnswersOn(answers[p], ExercisesOf(m))]
       /\ UNCHANGED nextPid

\* DELETE /api/modules/{module_id}, first registration (modules.py:326): the route
\* the router matches.
DeleteModule(u, m) ==
    /\ Authenticated(u)
    /\ UNCHANGED <<users, conc>>
    /\ IF ~IsActiveTeacher(u)
       THEN last' = 403 /\ UNCHANGED <<content, store>>
       ELSE IF m \notin modules
       THEN last' = 404 /\ UNCHANGED <<content, store>>
       ELSE DeleteModuleRows(m) /\ last' = 200

\* students_attempted: the module's progress rows with progress.answers.count() > 0.
StudentsAttempted(m) == Cardinality({p \in ProgressOf(m) : Len(answers[p]) > 0})

\* DELETE /api/modules/{module_id}, second registration (modules.py:757): refuses
\* with 403 when a progress row of the module has answers.
DeleteModuleChecked(u, m) ==
    /\ Authenticated(u)
    /\ UNCHANGED <<users, conc>>
    /\ IF ~IsActiveTeacher(u)
       THEN last' = 403 /\ UNCHANGED <<content, store>>
       ELSE IF m \notin modules
       THEN last' = 404 /\ UNCHANGED <<content, store>>
       ELSE IF StudentsAttempted(m) > 0
       THEN last' = 403 /\ UNCHANGED <<content, store>>
       ELSE DeleteModuleRows(m) /\ last' = 200

----------------------------------------------------------------------------
\* A scoring that awards the points whether or not the answer is correct.
ApplyScoredAnswerAlwaysPoints(p, is_correct) ==
    [p EXCEPT !.total_questions = @ + 1,
              !.correct_answers = IF is_correct THEN @ + 1 ELSE @,
              !.total_score = @ + PointsPerCorrect]

\* progress.total_questions += 1; if is_correct: correct_answers += 1; total_score += 10
ApplyScoredAnswer(p, is_correct) ==
    [p EXCEPT !.total_questions = @ + 1,
              !.correct_answers = IF is_correct THEN @ + 1 ELSE @,
              !.total_score = IF is_correct THEN @ + PointsPerCorrect ELSE @]

\* DatabaseService.save_user_answer(progress_id, exercise_id, selected_answer, is_correct):
\* UserProgress[progress_id] and Exercise[exercise_id] raise on an unknown id.
SaveUserAnswer(pid, e, sel, is_correct) ==
    /\ UNCHANGED <<users, content, nextPid, conc>>
    /\ IF pid \notin DOMAIN progress \/ e \notin DOMAIN exercises
       THEN last' = 500 /\ UNCHANGED <<progress, answers>>
       ELSE /\ progress[pid].total_questions < MaxQuestions
            /\ answers' = [answers EXCEPT ![pid] =
                   Append(@, [exercise |-> e, selected_answer |-> sel,
                              is_correct |-> is_correct])]
            /\ progress' = [progress EXCEPT ![pid] = ApplyScoredAnswer(@, is_correct)]
            /\ last' = 200

----------------------------------------------------------------------------
\* The store after create_tables, with one teacher and one student registered.
Init ==
    /\ users = [u \in UserIds |-> [role |-> IF u \in Teachers THEN "teacher" ELSE "student",
                                   is_active |-> TRUE]]
    /\ modules = {}
    /\ panels = <<>>
    /\ exercises = <<>>
    /\ progress = <<>>
    /\ answers = <<>>
    /\ nextPid = 1
    /\ last = 200
    /\ pc = [r \in Requests |-> "idle"]
    /\ req = [r \in Requests |-> <<>>]
    /\ writer = NoWriter
    /\ tx = NoTables
    /\ call = <<>>
    /\ result = <<>>

\* The handlers that write modules, panels and exercises, one request at a time.
Next ==
    \/ \E u \in UserIds, m \in ModuleIds, pnl \in PanelInputs, exs \in ExerciseInputs :
           SaveModuleWithExercises(u, m, pnl, exs)
    \/ \E u \in UserIds : CreateModule(u)
    \/ \E u \in UserIds : SaveAllResults(u)
    \/ \E u \in UserIds : SaveModule(u)
    \/ \E u \in UserIds, m \in ModuleIds, exs \in ExerciseInputs : SaveExercises(u, m, exs)
    \/ \E u \in UserIds, m \in ModuleIds, d \in ExerciseData : AddExerciseToModule(u, m, d)
    \/ \E u \in UserIds, e \in ExerciseIds, opts \in OptionCounts \cup {NotGiven},
          c \in CorrectInputs \cup {NotGiven} : UpdateExercise(u, e, opts, c)
    \/ \E u \in UserIds, m \in ModuleIds : DeleteModule(u, m)
    \/ \E u \in UserIds, m \in ModuleIds : DeleteModuleChecked(u, m)

Spec == Init /\ [][Next]_vars

----------------------------------------------------------------------------
\* The store after the teacher saved module m1 with one panel and exercise e1
\* (two options, the first correct) and module m2 without exercises.
InitScore ==
    /\ users = [u \in UserIds |-> [role |-> IF u \in Teachers THEN "teacher" ELSE "student",
                                   is_active |-> TRUE]]
    /\ modules = {"m1", "m2"}
    /\ panels = ("m1" :> <<1>>) @@ ("m2" :> <<>>)
    /\ exercises = ("e1" :> [module |-> "m1", options |-> 2, correct_answer |-> 0])
    /\ progress = <<>>
    /\ answers = <<>>
    /\ nextPid = 1
    /\ last = 200
    /\ pc = [r \in Requests |-> "idle"]
    /\ req = [r \in Requests |-> <<>>]
    /\ writer = NoWriter
    /\ tx = NoTables
    /\ call = <<>>
    /\ result = <<>>

\* The handlers that write progress rows and answers, on every request body.
NextScore ==
    \/ \E u \in UserIds, m \in ModuleIds \cup {NoModule}, d \in Submissions :
           SaveStudentAnswers(u, m, d)
    \/ \E u \in UserIds : SaveAllResults(u)
    \/ \E pid \in 1..MaxProgressId, e \in ExerciseIds, sel \in SelectedValues,
          c \in BOOLEAN : SaveUserAnswer(pid, e, sel, c)

SpecScore == InitScore /\ [][NextScore]_vars

\* Students submitting and teachers deleting modules.
NextAttempts ==
    \/ \E u \in UserIds, m \in ModuleIds \cup {NoModule}, d \in BasicSubmissions :
           SaveStudentAnswers(u, m, d)
    \/ \E u \in UserIds, m \in ModuleIds : DeleteModule(u, m)
    \/ \E u \in UserIds, m \in ModuleIds : DeleteModuleChecked(u, m)

SpecAttempts == InitScore /\ [][NextAttempts]_vars

----------------------------------------------------------------------------
\* save_student_answers served by independent workers: each request runs the
\* handler's statements in order, and requests interleave at its database round
\* trips.  The store gives one request at a time the write transaction (its first
\* flush() begins it); the rows it writes are in tx until commit().

\* A flush() whose rows the other requests read at once.
flushDirty(committed, uncommitted) == uncommitted

\* What the other requests read after a flush(): the committed rows.
flush(committed, uncommitted) == committed

\* db_session left by an exception: the transaction is rolled back.
rollback(committed, uncommitted) == committed

Committed == Tables(progress, answers, nextPid)

Publish(t) ==
    /\ progress' = t.progress
    /\ answers' = t.answers
    /\ nextPid' = t.nextPid

\* The handler returns or raises: the response leaves with its status.
Respond(r, status) ==
    /\ pc' = [pc EXCEPT ![r] = "done"]
    /\ req' = [req EXCEPT ![r].status = status]
    /\ last' = status

\* The role and module checks and UserProgress.get(module=module, user=user).
SsaLookup(r, u, m, d) ==
    LET found == LookupProgress(progress, m, u)
        status == IF users[u].role # "student" THEN 403
                  ELSE IF m = NoModule THEN 400
                  ELSE IF m \notin modules THEN 404
                  ELSE IF Cardinality(found) > 1 THEN 500
                  ELSE 0
    IN /\ pc[r] \in {"idle", "done"}
       /\ Authenticated(u)
       /\ UNCHANGED <<users, content, store, writer, tx, svc>>
       /\ req' = [req EXCEPT ![r] =
              [user |-> u, module |-> m, data |-> d, status |-> status,
               found |-> IF Cardinality(found) = 1 THEN CHOOSE p \in found : TRUE
                         ELSE NoProgress]]
       /\ IF status # 0
          THEN pc' = [pc EXCEPT ![r] = "done"] /\ last' = status
          ELSE pc' = [pc EXCEPT ![r] = "looked_up"] /\ UNCHANGED last

\* The update or the INSERT of the progress row, and the first flush().
SsaFlushProgress(r) ==
    LET q == req[r]
        t == UpdateOrCreate(Committed, q.found, q.module, q.user, q.data.score,
                            CountCorrect(q.data.user_answers),
                            TotalQuestions(q.data.user_answers))
    IN /\ pc[r] = "looked_up"
       /\ writer = NoWriter
       /\ q.found # NoProgress \/ nextPid <= MaxProgressId
       /\ UNCHANGED <<users, content, svc>>
       /\ IF q.found # NoProgress /\ q.found \notin DOMAIN progress
          THEN Respond(r, 500) /\ UNCHANGED <<store, writer, tx>>
          ELSE /\ writer' = r
               /\ tx' = t
               /\ Publish(flush(Committed, t))
               /\ pc' = [pc EXCEPT ![r] = "flushed"]
               /\ UNCHANGED <<req, last>>

\* The store is locked by another request for longer than the connection waits.
SsaLockTimeout(r) ==
    /\ pc[r] = "looked_up"
    /\ writer \notin {NoWriter, r}
    /\ Respond(r, 500)
    /\ UNCHANGED <<users, content, store, writer, tx, svc>>

\* The old answers of the progress row are deleted, and the second flush().
SsaDeleteOld(r) ==
    LET t == DeleteOldAnswers(tx, TargetPid(Committed, req[r].found))
    IN /\ pc[r] = "flushed"
       /\ writer = r
       /\ tx' = t
       /\ Publish(flush(Committed, t))
       /\ pc' = [pc EXCEPT ![r] = "deleted"]
       /\ UNCHANGED <<users, content, req, writer, last, svc>>

\* The loop that builds the new answers, and commit().
SsaInsertCommit(r) ==
    LET q == req[r]
        t == InsertAnswers(tx, TargetPid(Committed, q.found), q.data.user_answers, exercises)
    IN /\ pc[r] = "deleted"
       /\ writer = r
       /\ writer' = NoWriter
       /\ tx' = NoTables
       /\ UNCHANGED <<users, content, svc>>
       /\ IF InsertRaises(q.data.user_answers, exercises)
          THEN Publish(rollback(Committed, tx)) /\ Respond(r, 500)
          ELSE Publish(t) /\ Respond(r, 200)

NextConc ==
    \/ \E r \in Requests, u \in UserIds, m \in ModuleIds \cup {NoModule}, d \in ConcSubmissions :
           SsaLookup(r, u, m, d)
    \/ \E r \in Requests : SsaFlushProgress(r)
    \/ \E r \in Requests : SsaLockTimeout(r)
    \/ \E r \in Requests : SsaDeleteOld(r)
    \/ \E r \in Requests : SsaInsertCommit(r)

SpecConc == InitScore /\ [][NextConc]_vars

----------------------------------------------------------------------------
\* User management (/api/users) and DELETE /api/modules/exercises/{exercise_id}.

\* The accounts of the user-management runs: two teachers and a student.
Accounts == {"t1", "t2", "s1"}

\* update_data of PUT /api/users/{user_id}: the keys 'is_active' and 'role'.
UpdateData == [is_active : {"absent", "true", "false"},
               role : {"absent", "teacher", "student", "admin"}]

\* user_management.get_current_teacher: 403 unless current_user.role is 'teacher'.
IsTeacher(u) == users[u].role = "teacher"

\* The progress rows of user u (user.progress_records).
ProgressOfUser(u) == {p \in DOMAIN progress : progress[p].user = u}

\* for progress in user.progress_records: its answers deleted, then the row.
DeleteProgressRows(ps) ==
    /\ progress' = Restrict(progress, DOMAIN progress \ ps)
    /\ answers' = Restrict(answers, DOMAIN answers \ ps)
    /\ UNCHANGED nextPid

\* The user row after the 'is_active' and 'role' keys of update_data are applied.
UpdatedUser(row, upd) ==
    [role |-> IF upd.role \in {"teacher", "student"} THEN upd.role ELSE row.role,
     is_active |-> IF upd.is_active = "absent" THEN row.is_active ELSE upd.is_active = "true"]

\* An update that lets a teacher modify every account.
NoTeacherGuard(a, u) == FALSE

\* if user.role == 'teacher' and user.id != current_teacher.id: 403
ModifiesOtherTeacher(a, u) == users[u].role = "teacher" /\ u # a

\* PUT /api/users/{user_id}
UpdateUser(a, u, upd) ==
    /\ Authenticated(a)
    /\ UNCHANGED <<content, store, conc>>
    /\ IF ~IsTeacher(a)
       THEN last' = 403 /\ UNCHANGED users
       ELSE IF u \notin DOMAIN users
       THEN last' = 404 /\ UNCHANGED users
       ELSE IF ModifiesOtherTeacher(a, u)
       THEN last' = 403 /\ UNCHANGED users
       ELSE IF upd.role \in {"teacher", "student"} /\ users[u].role = "teacher"
       THEN last' = 403 /\ UNCHANGED users
       ELSE users' = [users EXCEPT ![u] = UpdatedUser(@, upd)] /\ last' = 200

\* POST /api/users/{user_id}/toggle-status
ToggleUserStatus(a, u) ==
    /\ Authenticated(a)
    /\ UNCHANGED <<content, store, conc>>
    /\ IF ~IsTeacher(a)
       THEN last' = 403 /\ UNCHANGED users
       ELSE IF u \notin DOMAIN users
       THEN last' = 404 /\ UNCHANGED users
       ELSE IF users[u].role = "teacher" \/ u = a
       THEN last' = 403 /\ UNCHANGED users
       ELSE users' = [users EXCEPT ![u].is_active = ~@] /\ last' = 200

\* DELETE /api/users/{user_id}
DeleteUser(a, u) ==
    /\ Authenticated(a)
    /\ UNCHANGED <<content, conc>>
    /\ IF ~IsTeacher(a)
       THEN last' = 403 /\ UNCHANGED <<users, store>>
       ELSE IF u \notin DOMAIN users
       THEN last' = 404 /\ UNCHANGED <<users, store>>
       ELSE IF users[u].role = "teacher" \/ u = a
       THEN last' = 403 /\ UNCHANGED <<users, store>>
       ELSE /\ DeleteProgressRows(ProgressOfUser(u))
            /\ users' = Restrict(users, DOMAIN users \ {u})
            /\ last' = 200

\* POST /api/users/{user_id}/reset-progress
ResetUserProgress(a, u) ==
    /\ Authenticated(a)
    /\ UNCHANGED <<users, content, conc>>
    /\ IF ~IsTeacher(a)
       THEN last' = 403 /\ UNCHANGED store
       ELSE IF u \notin DOMAIN users
       THEN last' = 404 /\ UNCHANGED store
       ELSE DeleteProgressRows(ProgressOfUser(u)) /\ last' = 200

\* The count taken over the answers to every exercise of the exercise's module.
AnswersCountOfModule(e) ==
    Cardinality(UNION {{<<p, i>> : i \in {j \in 1..Len(answers[p]) :
                                            /\ answers[p][j].exercise \in DOMAIN exercises
                                            /\ exercises[answers[p][j].exercise].module
                                                   = exercises[e].module}} :
                          p \in DOMAIN progress})

\* answers_count: the answers that name exercise e (exercise.user_answers).
AnswersCount(e) ==
    Cardinality(UNION {{<<p, i>> : i \in {j \in 1..Len(answers[p]) : answers[p][j].exercise = e}} :
                          p \in DOMAIN progress})

\* DELETE /api/modules/exercises/{exercise_id}: answers 200 with success False
\* and deletes nothing when the exercise has answers.
DeleteExercise(a, e) ==
    /\ Authenticated(a)
    /\ UNCHANGED <<users, modules, panels, store, conc>>
    /\ IF ~IsActiveTeacher(a)
       THEN last' = 403 /\ UNCHANGED exercises
       ELSE IF e \notin DOMAIN exercises
       THEN last' = 404 /\ UNCHANGED exercises
       ELSE IF AnswersCount(e) > 0
       THEN last' = 200 /\ UNCHANGED exercises
       ELSE exercises' = Restrict(exercises, DOMAIN exercises \ {e}) /\ last' = 200

\* The exercise lists the teacher saves with a new module in the life-cycle runs.
LifecycleExercises == {<<>>, <<[id |-> "e2", options |-> MaxOptions, correct |-> 0]>>}

\* Students submitting while the teacher creates and deletes modules and exercises,
\* deletes the student and resets progress.
NextLifecycle ==
    \/ \E u \in UserIds, m \in ModuleIds, d \in BasicSubmissions : SaveStudentAnswers(u, m, d)
    \/ \E u \in UserIds, m \in ModuleIds, pnl \in PanelInputs, exs \in LifecycleExercises :
           SaveModuleWithExercises(u, m, pnl, exs)
    \/ \E u \in UserIds, m \in ModuleIds : DeleteModule(u, m)
    \/ \E u \in UserIds, m \in ModuleIds : DeleteModuleChecked(u, m)
    \/ \E u \in UserIds, e \in ExerciseIds : DeleteExercise(u, e)
    \/ \E a, u \in UserIds : DeleteUser(a, u)
    \/ \E a, u \in UserIds : ResetUserProgress(a, u)

SpecLifecycle == InitScore /\ [][NextLifecycle]_vars

\* A module with a panel and an exercise is stored; two teachers and a student
\* are registered.
InitUsers ==
    /\ users = [u \in Accounts |-> [role |-> IF u = "s1" THEN "student" ELSE "teacher",
                                    is_active |-> TRUE]]
    /\ modules = {"m1", "m2"}
    /\ panels = ("m1" :> <<1>>) @@ ("m2" :> <<>>)
    /\ exercises = ("e1" :> [module |-> "m1", options |-> 2, correct_answer |-> 0])
    /\ progress = <<>>
    /\ answers = <<>>
    /\ nextPid = 1
    /\ last = 200
    /\ pc = [r \in Requests |-> "idle"]
    /\ req = [r \in Requests |-> <<>>]
    /\ writer = NoWriter
    /\ tx = NoTables
    /\ call = <<>>
    /\ result = <<>>

\* Teachers managing the accounts while students submit.
NextUsers ==
    \/ \E u \in Accounts, m \in ModuleIds, d \in BasicSubmissions : SaveStudentAnswers(u, m, d)
    \/ \E a, u \in Accounts, upd \in UpdateData : UpdateUser(a, u, upd)
    \/ \E a, u \in Accounts : ToggleUserStatus(a, u)
    \/ \E a, u \in Accounts : DeleteUser(a, u)
    \/ \E a, u \in Accounts : ResetUserProgress(a, u)

SpecUsers == InitUsers /\ [][NextUsers]_vars

----------------------------------------------------------------------------
\* Service and read-only calls: the argument is drawn at the start, the call
\* returns once and touches no table.

\* The store after create_tables, no request in flight.
EmptyStore ==
    /\ users = [u \in UserIds |-> [role |-> IF u \in Teachers THEN "teacher" ELSE "student",
                                   is_active |-> TRUE]]
    /\ modules = {}
    /\ panels = <<>>
    /\ exercises = <<>>
    /\ progress = <<>>
    /\ answers = <<>>
    /\ nextPid = 1
    /\ last = 200
    /\ pc = [r \in Requests |-> "idle"]
    /\ req = [r \in Requests |-> <<>>]
    /\ writer = NoWriter
    /\ tx = NoTables

tables == <<users, modules, panels, exercises, progress, answers, nextPid, last, pc, req, writer, tx>>

\* The call returns value v.
Return(v) ==
    /\ result = <<>>
    /\ result' = <<v>>
    /\ UNCHANGED <<call, tables>>

----------------------------------------------------------------------------
\* TrainingService.generate_training_exercises, step 7: the parsed candidate
\* records are turned into schemas.Exercise objects.

MaxCandidates == 3

\* len(ex_data.get("options", [])) != 4
RequiredOptions == 4

\* A candidate: whether it is a dict, whether "question" and "explanation" are
\* non-empty, the length of "options" and the value of "correct" (NotGiven: no
\* such key, the handler then reads "correctAnswer" with default 0).
Candidate(q, n, c, x) ==
    [shape |-> "dict", question |-> q, options |-> n, correct |-> c, explanation |-> x]

\* A candidate that is no dict (a string, a number, null).
Malformed == [shape |-> "other", question |-> FALSE, options |-> 0, correct |-> NotGiven,
              explanation |-> FALSE]

\* Complete candidates with the first, the last, the one-past-the-last, a negative
\* and no correct index; with one option fewer and one more than required; without
\* options, question or explanation; and one that is no dict.
CandidateRecords ==
    {Candidate(TRUE, RequiredOptions, 0, TRUE),
     Candidate(TRUE, RequiredOptions, RequiredOptions - 1, TRUE),
     Candidate(TRUE, RequiredOptions, RequiredOptions, TRUE),
     Candidate(TRUE, RequiredOptions, 0 - 1, TRUE),
     Candidate(TRUE, RequiredOptions, NotGiven, TRUE),
     Candidate(TRUE, RequiredOptions - 1, 0, TRUE),
     Candidate(TRUE, RequiredOptions + 1, RequiredOptions, TRUE),
     Candidate(TRUE, 0, 0, TRUE),
     Candidate(FALSE, RequiredOptions, 0, TRUE),
     Candidate(TRUE, RequiredOptions, 0, FALSE),
     Malformed}

CandidateLists == SeqsUpTo(CandidateRecords, MaxCandidates)

\* correct_val = ex_data.get("correct"); if None: ex_data.get("correctAnswer", 0)
CorrectVal(c) == IF c.correct = NotGiven THEN 0 ELSE c.correct

\* schemas.Exercise(..., options=..., correct=correct_val): the field validator
\* raises when correct >= len(options).
ExerciseSchemaRaises(options, correct) == correct >= options

\* One round of the loop: TRUE when the candidate is appended to exercises, FALSE
\* when it is skipped (a check fails, or the except clause catches what the body
\* raised; ex_data.get raises on a candidate that is no dict).
Accepts(c) ==
    /\ c.shape = "dict"
    /\ c.question
    /\ c.options # 0 /\ c.options = RequiredOptions
    /\ c.explanation
    /\ ~ExerciseSchemaRaises(c.options, CorrectVal(c))

\* The Exercise object built from an accepted candidate.
ExerciseObject(c) == [options |-> c.options, correct |-> CorrectVal(c)]

RECURSIVE ValidateAborting(_, _, _, _)
\* A loop that stops at the first candidate it rejects.
ValidateAborting(cands, i, acc, skipped) ==
    IF i > Len(cands) THEN [exercises |-> acc, skipped |-> skipped]
    ELSE IF Accepts(cands[i])
         THEN ValidateAborting(cands, i + 1, Append(acc, ExerciseObject(cands[i])), skipped)
         ELSE [exercises |-> acc, skipped |-> skipped + 1]

RECURSIVE ValidateFrom(_, _, _, _)
\* for idx, ex_data in enumerate(exercises_data): ... from position i on.
ValidateFrom(cands, i, acc, skipped) ==
    IF i > Len(cands) THEN [exercises |-> acc, skipped |-> skipped]
    ELSE IF Accepts(cands[i])
         THEN ValidateFrom(cands, i + 1, Append(acc, ExerciseObject(cands[i])), skipped)
         ELSE ValidateFrom(cands, i + 1, acc, skipped + 1)

\* The list check before the loop, the loop, and "if not exercises: raise".
ValidateExercises(cands) ==
    LET v == IF cands = <<>> THEN [exercises |-> <<>>, skipped |-> 0]
             ELSE ValidateFrom(cands, 1, <<>>, 0)
    IN [exercises |-> v.exercises, skipped |-> v.skipped, raised |-> v.exercises = <<>>]

GenerateTrainingExercises == Return(ValidateExercises(call))

InitValidate == EmptyStore /\ call \in CandidateLists /\ result = <<>>

NextValidate == GenerateTrainingExercises

SpecValidate == InitValidate /\ [][NextValidate]_vars

----------------------------------------------------------------------------
\* Properties of the answers and of the exercises they point at.

AllAnswerRows == UNION {Range(answers[p]) : p \in DOMAIN answers}

\* C1: every stored answer row has is_correct equal to (selected_answer =
\* correct_answer of its exercise), whatever flag the caller sent, and a
\* selected_answer outside the options is stored as incorrect.
C1_IsCorrectIsComputed ==
    \A a \in AllAnswerRows :
        a.exercise \in DOMAIN exercises =>
            a.is_correct = (a.selected_answer = exercises[a.exercise].correct_answer)

\* Some answer row of another module's progress, or of the module's own progress,
\* hangs on module m.
AnswersReference(m) ==
    \E p \in DOMAIN progress : \E i \in 1..Len(answers[p]) :
        answers[p][i].exercise \in ExercisesOf(m) \/ p \in ProgressOf(m)

\* C2: a DELETE of a module that answers reference, served by either registration
\* of the route, ends in 403 or 409 and leaves modules, panels, exercises, progress
\* rows and answers as they were.
C2_DeleteBlockedByAnswers ==
    [][\A u \in UserIds, m \in ModuleIds :
          (AnswersReference(m) /\ (DeleteModule(u, m) \/ DeleteModuleChecked(u, m)))
              => (last' \in {403, 409} /\ UNCHANGED <<content, store>>)]_vars

\* C3: in every reachable state every stored exercise has
\* 0 <= correct_answer < len(options).
C3_CorrectAnswerInRange ==
    \A e \in DOMAIN exercises :
        0 <= exercises[e].correct_answer /\ exercises[e].correct_answer < exercises[e].options

\* C5: the total_score of every progress record is 10 points per correct answer
\* counted on it, whatever score the caller sent.
C5_ScoreFromCorrectness ==
    \A p \in DOMAIN progress :
        progress[p].total_score = PointsPerCorrect * progress[p].correct_answers

----------------------------------------------------------------------------
\* Properties of the counters of a progress record.

\* C6: a save_user_answer call that succeeds adds exactly 1 to total_questions of
\* its record, adds 1 to correct_answers exactly when is_correct, adds 10 points to
\* total_score when is_correct and none otherwise, and changes no other record.
C6_ScoredAnswerApplied ==
    [][\A pid \in 1..MaxProgressId, e \in ExerciseIds, sel \in SelectedValues, c \in BOOLEAN :
          (SaveUserAnswer(pid, e, sel, c) /\ last' = 200)
              => /\ DOMAIN progress' = DOMAIN progress
                 /\ progress'[pid].total_questions = progress[pid].total_questions + 1
                 /\ progress'[pid].correct_answers =
                        progress[pid].correct_answers + (IF c THEN 1 ELSE 0)
                 /\ progress'[pid].total_score =
                        progress[pid].total_score + (IF c THEN 10 ELSE 0)
                 /\ \A q \in DOMAIN progress \ {pid} : progress'[q] = progress[q]]_vars

\* save_user_answer has scored a correct answer on a record that a submission
\* without answers created, next to another record.
C6_Witness ==
    \E p, q \in DOMAIN progress :
        /\ p # q
        /\ progress[p].total_questions = 1
        /\ progress[p].correct_answers = 1
        /\ progress[p].total_score \in {s + PointsPerCorrect : s \in Scores}
        /\ Len(answers[p]) = 1

\* C7: in every reachable state every progress record has
\* 0 <= correct_answers <= total_questions.
C7_CorrectWithinTotal ==
    \A p \in DOMAIN progress :
        0 <= progress[p].correct_answers
        /\ progress[p].correct_answers <= progress[p].total_questions

\* A submission whose answers are all flagged correct has been stored.
C7_Witness ==
    \E p \in DOMAIN progress :
        /\ progress[p].total_questions = MaxAnswers
        /\ progress[p].correct_answers = progress[p].total_questions

----------------------------------------------------------------------------
\* Properties of save_student_answers under interleaving.

\* The request r has committed.
Committing(r) == pc[r] = "deleted" /\ pc'[r] = "done" /\ req'[r].status = 200

\* C4: the commit of a submission leaves on its progress record exactly the
\* answers of that submission whose exercise exists, in order; the answers of
\* earlier submissions are gone; and no other step changes the answers of a record.
C4_AnswersReplaced ==
    [][/\ \A r \in Requests :
              Committing(r) =>
                  answers'[TargetPid(Committed, req[r].found)] =
                      NewAnswerRows(req[r].data.user_answers, exercises)
       /\ (\A r \in Requests : ~Committing(r)) => answers' = answers]_vars

\* A retry has committed on a record that held the answers of an earlier
\* submission, and the record now holds the answers of the retry.
C4_Witness ==
    \E r \in Requests :
        /\ pc[r] = "done"
        /\ req[r].status = 200
        /\ req[r].found \in DOMAIN progress
        /\ \E o \in Requests \ {r} :
               /\ pc[o] = "done"
               /\ req[o].status = 200
               /\ req[o].found = NoProgress
               /\ req[o].module = req[r].module
               /\ req[o].data # req[r].data
               /\ NewAnswerRows(req[o].data.user_answers, exercises) # <<>>
        /\ answers[req[r].found] = NewAnswerRows(req[r].data.user_answers, exercises)

\* C8 as stated: total_questions of a progress record never decreases from one
\* committed state to the next.
C8_TotalNeverDecreases ==
    [][\A p \in DOMAIN progress \cap DOMAIN progress' :
          progress'[p].total_questions >= progress[p].total_questions]_vars

\* C8 amended: total_questions of a progress record decreases only at the commit
\* of a save_student_answers retry by the record's student for the record's module,
\* which sets it to the number of answers of that request.
C8_TotalLoweredOnlyByRetry ==
    [][\A p \in DOMAIN progress \cap DOMAIN progress' :
          progress'[p].total_questions < progress[p].total_questions
              => \E r \in Requests :
                     /\ Committing(r)
                     /\ req[r].found = p
                     /\ req[r].user = progress[p].user
                     /\ req[r].module = progress[p].module
                     /\ progress'[p].total_questions = Len(req[r].data.user_answers)]_vars

\* A retry with fewer answers than the record counts has flushed its update.
C8_Witness ==
    \E r \in Requests :
        /\ writer = r
        /\ req[r].found \in DOMAIN progress
        /\ tx.progress[req[r].found].total_questions < progress[req[r].found].total_questions
        /\ ~InsertRaises(req[r].data.user_answers, exercises)

\* C9: there is at most one progress record per (module, user) pair.
C9_OneProgressPerPair ==
    \A p, q \in DOMAIN progress :
        (progress[p].module = progress[q].module /\ progress[p].user = progress[q].user)
            => p = q

\* The counters and the answers of record p are those of the one body d.
WrittenBy(p, d) ==
    /\ progress[p].total_score = d.score
    /\ progress[p].correct_answers = CountCorrect(d.user_answers)
    /\ progress[p].total_questions = TotalQuestions(d.user_answers)
    /\ answers[p] = NewAnswerRows(d.user_answers, exercises)

----------------------------------------------------------------------------
\* Properties of deletion and of the accounts.

\* C11: in every reachable state every panel list, exercise and progress row
\* belongs to a stored module, every progress row to a stored user, every answer
\* list to a stored progress row and every answer to a stored exercise; so nothing
\* of a deleted module, user or exercise is left behind.
C11_NoOrphanRows ==
    /\ DOMAIN panels \subseteq modules
    /\ \A e \in DOMAIN exercises : exercises[e].module \in modules
    /\ \A p \in DOMAIN progress :
           progress[p].module \in modules /\ progress[p].user \in DOMAIN users
    /\ DOMAIN answers = DOMAIN progress
    /\ \A a \in AllAnswerRows : a.exercise \in DOMAIN exercises

\* Module m1 and its exercise were deleted; of the two progress rows created so
\* far, one row on m2 is stored.
C11_Witness ==
    /\ "m1" \notin modules
    /\ "e1" \notin DOMAIN exercises
    /\ nextPid = 3
    /\ \E p \in DOMAIN progress : progress[p].module = "m2" /\ DOMAIN progress = {p}

\* The step is a user-management call by account a on account u.
ManagedBy(a, u) ==
    \/ \E upd \in UpdateData : UpdateUser(a, u, upd)
    \/ ToggleUserStatus(a, u)
    \/ DeleteUser(a, u)

\* C17: an account whose role is teacher stays stored with the role teacher at
\* every step; an update_user, toggle_user_status or delete_user call by another
\* account leaves it as it was; and a role is changed only on an account that is
\* a student when the call is made.
C17_TeachersKeepRole ==
    [][\A u \in DOMAIN users :
          /\ users[u].role = "teacher"
                 => /\ u \in DOMAIN users'
                    /\ users'[u].role = "teacher"
                    /\ \A a \in Accounts \ {u} : ManagedBy(a, u) => users'[u] = users[u]
          /\ (u \in DOMAIN users' /\ users'[u].role # users[u].role)
                 => users[u].role = "student"]_vars

\* The student was promoted to teacher, and a teacher deactivated its own account.
C17_Witness ==
    /\ "s1" \in DOMAIN users
    /\ users["s1"].role = "teacher"
    /\ \E t \in {"t1", "t2"} : ~users[t].is_active

----------------------------------------------------------------------------
\* Properties of the exercise validator.

\* C12: a candidate that is complete (a dict with question, explanation, N > 0
\* options and a correct index) is accepted if and only if 0 <= correct < N.
C12_AcceptsIffIndexInRange ==
    (/\ result # <<>>
     /\ Len(call) = 1
     /\ call[1].shape = "dict" /\ call[1].question /\ call[1].explanation
     /\ call[1].options > 0 /\ call[1].correct # NotGiven)
        => (Len(result[1].exercises) = 1
                <=> (0 <= call[1].correct /\ call[1].correct < call[1].options))

\* C13: the validation handles every candidate: the accepted and the skipped ones
\* add up to the whole list, the objects returned are those of the accepted
\* candidates in their original order, and the batch fails exactly when no
\* candidate is accepted.
C13_ValidatesWholeList ==
    result # <<>> =>
        LET accepted == SelectSeq(call, Accepts)
        IN /\ Len(result[1].exercises) + result[1].skipped = Len(call)
           /\ result[1].exercises = [i \in 1..Len(accepted) |-> ExerciseObject(accepted[i])]
           /\ result[1].raised <=> accepted = <<>>

\* A candidate that is no dict was skipped between two accepted ones, which are
\* returned in their order.
C13_Witness ==
    /\ result # <<>>
    /\ Len(call) = 3
    /\ Accepts(call[1]) /\ call[2] = Malformed /\ Accepts(call[3])
    /\ call[1] # call[3]
    /\ result[1].exercises = <<ExerciseObject(call[1]), ExerciseObject(call[3])>>
    /\ result[1].skipped = 1
    /\ ~result[1].raised

----------------------------------------------------------------------------
\* The accuracy reported by the aggregation endpoints.  A call carries the
\* progress records selected for one student; the result carries the
\* accuracy of that student's entry in units of 10^-decimals percent.

MaxRecords == 2
MaxTotal == 3

LeaderboardDecimals == 2
ProgressDecimals == 1

\* A UserProgress row as the folds read it.
ProgressCounters ==
    {r \in [correct_answers : 0..MaxTotal, total_questions : 0..MaxTotal] :
        r.correct_answers <= r.total_questions}

ProgressLists == SeqsUpTo(ProgressCounters, MaxRecords)

RECURSIVE SumCorrect(_)
\* sum(p.correct_answers for p in student_progress)
SumCorrect(recs) ==
    IF recs = <<>> THEN 0 ELSE Head(recs).correct_answers + SumCorrect(Tail(recs))

RECURSIVE SumTotal(_)
\* sum(p.total_questions for p in student_progress)
SumTotal(recs) ==
    IF recs = <<>> THEN 0 ELSE Head(recs).total_questions + SumTotal(Tail(recs))

\* Python's round() on num / den >= 0: to the nearest integer, a tie to the even one.
RoundHalfEven(num, den) ==
    LET q == num \div den
        r == num % den
    IN IF 2 * r < den THEN q
       ELSE IF 2 * r > den THEN q + 1
       ELSE IF q % 2 = 0 THEN q ELSE q + 1

\* round(num / den, decimals), in units of 10^-decimals.
RoundTo(num, den, decimals) == RoundHalfEven(num * 10 ^ decimals, den)

\* leaderboard.get_leaderboard: a student without records is skipped.
LeaderboardAccuracy(recs) ==
    [endpoint |-> "leaderboard",
     listed |-> recs # <<>>,
     decimals |-> LeaderboardDecimals,
     accuracy |-> IF SumTotal(recs) > 0
                  THEN RoundTo(100 * SumCorrect(recs), SumTotal(recs), LeaderboardDecimals)
                  ELSE 0]

\* progress.get_leaderboard: every student is listed.
ProgressAccuracy(recs) ==
    [endpoint |-> "progress",
     listed |-> TRUE,
     decimals |-> ProgressDecimals,
     accuracy |-> IF SumTotal(recs) > 0
                  THEN RoundTo(100 * SumCorrect(recs), SumTotal(recs), ProgressDecimals)
                  ELSE 0]

RECURSIVE ProductTotal(_)
\* The common denominator of the records' ratios.
ProductTotal(recs) ==
    IF recs = <<>> THEN 1 ELSE Head(recs).total_questions * ProductTotal(Tail(recs))

RECURSIVE TotalAccuracyOver(_, _)
\* total_accuracy += (p.correct_answers / p.total_questions) * 100, over the
\* denominator den, which every total_questions divides.
TotalAccuracyOver(recs, den) ==
    IF recs = <<>> THEN 0
    ELSE 100 * Head(recs).correct_answers * (den \div Head(recs).total_questions)
             + TotalAccuracyOver(Tail(recs), den)

\* leaderboard.get_top_performers: the mean of the records' own accuracies.
TopPerformersAccuracy(recs) ==
    LET counted == SelectSeq(recs, LAMBDA p : p.total_questions > 0)
        count_with_questions == Len(counted)
        den == ProductTotal(counted)
    IN [endpoint |-> "top_performers",
        listed |-> recs # <<>>,
        decimals |-> 0,
        accuracy |-> IF count_with_questions > 0
                     THEN RoundHalfEven(TotalAccuracyOver(counted, den),
                                        den * count_with_questions)
                     ELSE 0]

LeaderboardFold == Return(LeaderboardAccuracy(call))

ProgressFold == Return(ProgressAccuracy(call))

TopPerformersFold == Return(TopPerformersAccuracy(call))

InitAccuracy ==
    /\ EmptyStore
    /\ call \in ProgressLists
    /\ result = <<>>

NextAccuracy ==
    \/ LeaderboardFold
    \/ ProgressFold
    \/ TopPerformersFold

SpecAccuracy == InitAccuracy /\ [][NextAccuracy]_vars

\* C14: the accuracy of a listed entry is 100 * sum(correct_answers) /
\* sum(total_questions) over the student's records, rounded as the endpoint
\* rounds, and 0 when the sum of total_questions is 0.
C14_AccuracyIsRatioOfSums ==
    (result # <<>> /\ result[1].listed) =>
        result[1].accuracy =
            IF SumTotal(call) = 0 THEN 0
            ELSE RoundTo(100 * SumCorrect(call), SumTotal(call), result[1].decimals)

----------------------------------------------------------------------------
\* Ranking.  A call carries the total scores of the ranked students in the
\* order the fold met them (student i is the i-th), the limit parameter and
\* the current user (NoStudent: a user who is not among the ranked).

MaxStudents == 4
MaxLimit == 2

NoStudent == 0
NoRank == 0

ScoreValues == {30, 50, 80}

RankingCalls ==
    UNION {[scores : {s}, limit : 1..MaxLimit, me : {NoStudent} \cup (1..Len(s))] :
              s \in SeqsUpTo(ScoreValues, MaxStudents)}

\* leaderboard_data before the sort: one entry for each student, in input order.
Entries(scores) == [i \in 1..Len(scores) |-> [student |-> i, total_score |-> scores[i]]]

RECURSIVE InsertBeforeTies(_, _)
\* An insertion that puts an entry before the entries of equal score.
InsertBeforeTies(sorted, e) ==
    IF sorted = <<>> THEN <<e>>
    ELSE IF Head(sorted).total_score <= e.total_score THEN <<e>> \o sorted
    ELSE <<Head(sorted)>> \o InsertBeforeTies(Tail(sorted), e)

RECURSIVE InsertDesc(_, _)
\* The place sort(key=total_score, reverse=True) gives an entry met after the
\* entries of sorted: behind every entry whose score is not smaller.
InsertDesc(sorted, e) ==
    IF sorted = <<>> THEN <<e>>
    ELSE IF Head(sorted).total_score < e.total_score THEN <<e>> \o sorted
    ELSE <<Head(sorted)>> \o InsertDesc(Tail(sorted), e)

RECURSIVE SortDesc(_, _)
\* leaderboard_data.sort(key=lambda x: x['total_score'], reverse=True)
SortDesc(sorted, rest) ==
    IF rest = <<>> THEN sorted
    ELSE SortDesc(InsertDesc(sorted, Head(rest)), Tail(rest))

\* for rank, entry in enumerate(leaderboard_data, start=1): entry['rank'] = rank
AddRanks(sorted) ==
    [k \in 1..Len(sorted) |->
        [student |-> sorted[k].student, total_score |-> sorted[k].total_score, rank |-> k]]

\* leaderboard_data[:limit]
TopK(ranked, limit) == SubSeq(ranked, 1, IF limit < Len(ranked) THEN limit ELSE Len(ranked))

\* The rank of the current user's entry, searched in the whole ranked list.
CurrentUserRank(ranked, me) ==
    IF \E k \in 1..Len(ranked) : ranked[k].student = me
    THEN ranked[CHOOSE k \in 1..Len(ranked) : ranked[k].student = me].rank
    ELSE NoRank

\* The sort, the ranks, the truncation and the current user's rank.
Leaderboard(c, endpoint) ==
    LET ranked == AddRanks(SortDesc(<<>>, Entries(c.scores)))
    IN [endpoint |-> endpoint,
        leaderboard |-> TopK(ranked, c.limit),
        total_students |-> Len(ranked),
        current_user_rank |-> CurrentUserRank(ranked, c.me)]

GetLeaderboard == Return(Leaderboard(call, "leaderboard"))

GetProgressLeaderboard == Return(Leaderboard(call, "progress"))

InitRanking ==
    /\ EmptyStore
    /\ call \in RankingCalls
    /\ result = <<>>

NextRanking ==
    \/ GetLeaderboard
    \/ GetProgressLeaderboard

SpecRanking == InitRanking /\ [][NextRanking]_vars

\* C15: the rank of an entry is 1 plus the number of ranked students with a
\* higher score or with the same score and an earlier place in the input; the
\* leaderboard is the first limit entries of that ranking, rank k at place k;
\* and the current user's rank is that of the whole ranking, listed or not.
C15_RankIsStablePosition ==
    result # <<>> =>
        LET scores == call.scores
            n == Len(scores)
            StablePosition(i) ==
                1 + Cardinality({j \in 1..n : \/ scores[j] > scores[i]
                                              \/ scores[j] = scores[i] /\ j < i})
            board == result[1].leaderboard
        IN /\ result[1].total_students = n
           /\ Len(board) = IF call.limit < n THEN call.limit ELSE n
           /\ \A k \in 1..Len(board) :
                 /\ board[k].rank = k
                 /\ board[k].student \in 1..n
                 /\ board[k].total_score = scores[board[k].student]
                 /\ board[k].rank = StablePosition(board[k].student)
           /\ result[1].current_user_rank =
                 IF call.me = NoStudent THEN NoRank ELSE StablePosition(call.me)

\* Scores [50, 80, 80, 30] with limit 2: the two students with 80 are listed
\* with ranks 1 and 2 in their input order, and the current user, the student
\* with 50, has rank 3 although the list stops before its entry.
C15_Witness ==
    /\ result # <<>>
    /\ call.scores = <<50, 80, 80, 30>>
    /\ call.limit = 2
    /\ call.me = 1
    /\ result[1].leaderboard = <<[student |-> 2, total_score |-> 80, rank |-> 1],
                                 [student |-> 3, total_score |-> 80, rank |-> 2]>>
    /\ result[1].current_user_rank = 3

----------------------------------------------------------------------------
\* Time windows.  A timestamp is a number of ticks since 00:00:00 of a
\* Monday; a call carries datetime.now(), now.day, the timeframe and the
\* started_at of one student's progress records.

TicksPerDay == 2
MaxDay == 7
MaxDayOfMonth == 2
MaxWindowRecords == 2

DaysPerWeek == 7

Timeframes == {"all_time", "this_week", "this_month"}

Timestamps == 0..(MaxDay * TicksPerDay + TicksPerDay - 1)

WindowCalls ==
    UNION {[now : {t}, day : 1..MaxDayOfMonth, timeframe : Timeframes,
            started_at : SeqsUpTo(0..t, MaxWindowRecords)] : t \in Timestamps}

\* The date of a timestamp, in days since the first Monday.
DateOf(t) == t \div TicksPerDay

\* now.weekday(): 0 on a Monday.
Weekday(t) == DateOf(t) % DaysPerWeek

\* t - timedelta(days=n)
MinusDays(t, n) == t - n * TicksPerDay

\* t.replace(hour=0, minute=0, second=0, microsecond=0)
AtMidnight(t) == t - (t % TicksPerDay)

\* no start_date: every record is kept.
NoStartDate == 0 - 1

\* now.replace(day=1, hour=0, minute=0, second=0, microsecond=0)
FirstOfMonth(c) == AtMidnight(MinusDays(c.now, c.day - 1))

\* leaderboard.get_leaderboard: start_date.
LeaderboardStartDate(c) ==
    IF c.timeframe = "this_week" THEN AtMidnight(MinusDays(c.now, Weekday(c.now)))
    ELSE IF c.timeframe = "this_month" THEN FirstOfMonth(c)
    ELSE NoStartDate

\* training.get_leaderboard: start_date.
TrainingStartDate(c) ==
    IF c.timeframe = "this_week" THEN MinusDays(c.now, Weekday(c.now))
    ELSE IF c.timeframe = "this_month" THEN FirstOfMonth(c)
    ELSE NoStartDate

\* [p for p in student_progress if p.started_at >= start_date], and the skip
\* of a student left without records.
SelectWindow(c, endpoint, start_date) ==
    LET selected == IF start_date = NoStartDate THEN c.started_at
                    ELSE SelectSeq(c.started_at, LAMBDA s : s >= start_date)
    IN [endpoint |-> endpoint, selected |-> selected, listed |-> selected # <<>>]

GetLeaderboardWindow == Return(SelectWindow(call, "leaderboard", LeaderboardStartDate(call)))

GetTrainingLeaderboardWindow == Return(SelectWindow(call, "training", TrainingStartDate(call)))

InitWindow ==
    /\ EmptyStore
    /\ call \in WindowCalls
    /\ result = <<>>

NextWindow ==
    \/ GetLeaderboardWindow
    \/ GetTrainingLeaderboardWindow

SpecWindow == InitWindow /\ [][NextWindow]_vars

\* C16: for this_week the records folded are exactly those started at or after
\* 00:00:00 of the most recent Monday, for this_month those started at or
\* after 00:00:00 of day 1 of the month, at any time of day of the request.
C16_WindowFromMidnight ==
    (result # <<>> /\ call.timeframe # "all_time") =>
        LET today == DateOf(call.now)
            boundary == IF call.timeframe = "this_week"
                        THEN (today - Weekday(call.now)) * TicksPerDay
                        ELSE (today - (call.day - 1)) * TicksPerDay
        IN result[1].selected = SelectSeq(call.started_at, LAMBDA s : s >= boundary)

----------------------------------------------------------------------------
\* Lookups of ids that are not stored.  A request that passed
\* get_current_user_from_token and whose handler has not run yet is held in
\* call; result holds the last reply of a handler with a lookup: the
\* operation, the status, and whether the id it looked up was missing.

UnknownUser == "u9"
NoStudentId == "none"
UnknownModule == "m9"

LookupUsers == Accounts \cup {UnknownUser}

LookupModules == ModuleIds \cup {UnknownModule}

\* The reply of a handler.
Reply(op, status, missing) ==
    /\ result' = <<[op |-> op, status |-> status, missing |-> missing]>>
    /\ last' = status

\* "except Exception as e: raise HTTPException(500, ...)" with no
\* "except HTTPException: raise" before it: an HTTPException raised in the try
\* block is caught as well and leaves as a 500.
ExceptException(raised) == 500

\* "except HTTPException: raise" before "except Exception": the status raised.
ExceptHTTPException(raised) == raised

\* POST /api/reports/generate/achievement_summary
GenerateAchievementSummaryReport(a, student_id) ==
    /\ Authenticated(a)
    /\ UNCHANGED <<tables, call>>
    /\ IF users[a].role # "teacher"
       THEN Reply("achievement_summary", 403, FALSE)
       ELSE IF student_id # NoStudentId /\ student_id \notin DOMAIN users
       THEN Reply("achievement_summary", ExceptException(404), TRUE)
       ELSE Reply("achievement_summary", 200, FALSE)

\* GET /api/training/student-detail/{student_id}
GetStudentDetail(a, student_id) ==
    /\ Authenticated(a)
    /\ UNCHANGED <<tables, call>>
    /\ IF users[a].role # "teacher"
       THEN Reply("student_detail", ExceptHTTPException(403), FALSE)
       ELSE IF student_id \notin DOMAIN users
       THEN Reply("student_detail", ExceptHTTPException(404), TRUE)
       ELSE IF users[student_id].role # "student"
       THEN Reply("student_detail", ExceptHTTPException(400), FALSE)
       ELSE Reply("student_detail", 200, FALSE)

\* GET /api/training/modules/{module_id}
GetModuleDetail(a, module_id) ==
    /\ Authenticated(a)
    /\ UNCHANGED <<tables, call>>
    /\ IF module_id \notin modules
       THEN Reply("module_detail", ExceptHTTPException(404), TRUE)
       ELSE Reply("module_detail", 200, FALSE)

\* Depends(get_current_user_from_token) of get_my_progress and save_all_results:
\* the user is read in a session of its own, which ends before the handler runs.
GetCurrentUserFromToken(op, u) ==
    /\ call = <<>>
    /\ Authenticated(u)
    /\ call' = <<[op |-> op, user |-> u]>>
    /\ UNCHANGED <<tables, result>>

\* GET /api/training/progress, the handler: User.get(id=user_id).
GetMyProgress ==
    /\ call # <<>>
    /\ call[1].op = "get_my_progress"
    /\ call' = <<>>
    /\ UNCHANGED <<users, content, store, pc, req, writer, tx>>
    /\ IF call[1].user \notin DOMAIN users
       THEN Reply("get_my_progress", ExceptException(404), TRUE)
       ELSE Reply("get_my_progress", 200, FALSE)

\* POST /api/training/save-all-results, the handler: User.get(id=user_id), then
\* the LearningModule constructor.
SaveAllResultsHandler ==
    /\ call # <<>>
    /\ call[1].op = "save_all_results"
    /\ call' = <<>>
    /\ UNCHANGED <<users, content, store, pc, req, writer, tx>>
    /\ IF call[1].user \notin DOMAIN users
       THEN Reply("save_all_results", ExceptException(404), TRUE)
       ELSE LearningModuleRaises(FALSE) /\ Reply("save_all_results", ExceptException(500), FALSE)

\* Lookups by teachers and students while a teacher deletes and deactivates accounts.
NextLookup ==
    \/ \E a \in Accounts, s \in LookupUsers \cup {NoStudentId} :
           GenerateAchievementSummaryReport(a, s)
    \/ \E a \in Accounts, s \in LookupUsers : GetStudentDetail(a, s)
    \/ \E a \in Accounts, m \in LookupModules : GetModuleDetail(a, m)
    \/ \E u \in Accounts, op \in {"get_my_progress", "save_all_results"} :
           GetCurrentUserFromToken(op, u)
    \/ GetMyProgress
    \/ SaveAllResultsHandler
    \/ \E a, u \in Accounts : DeleteUser(a, u)
    \/ \E a, u \in Accounts : ToggleUserStatus(a, u)

SpecLookup == InitUsers /\ [][NextLookup]_vars

\* C18: a handler that looked up an id that is not stored replies 404.
C18_MissingIdIsNotFound ==
    (result # <<>> /\ result[1].missing) => result[1].status = 404

----------------------------------------------------------------------------
\* parse_comic_script.  The script text is a sequence of pieces: a marker
\* (what "\*\*Panel\s*(\d+):\*\*" matches, with the digits written in it), a
\* dialogue field ("**DIALOGUE:** ...") or other text, which includes lines
\* that look like a marker but are none ("Panel 3:", "**Panel:**").

MaxPieces == 4

MarkerNumbers == {1, 2, 5}

Marker(n) == [kind |-> "marker", n |-> n, text |-> ""]

ScriptPieces ==
    {Marker(n) : n \in MarkerNumbers}
        \cup {[kind |-> "dialogue", n |-> 0, text |-> "Hello"],
              [kind |-> "text", n |-> 0, text |-> "Panel 3:"],
              [kind |-> "text", n |-> 0, text |-> "A street."]}

Scripts == SeqsUpTo(ScriptPieces, MaxPieces)

\* The places of the markers at or after place i.
MarkersFrom(script, i) == {j \in i..Len(script) : script[j].kind = "marker"}

\* The smallest place in a set of places that is not empty.
First(places) == CHOOSE j \in places : \A k \in places : j <= k

\* A content that runs to the end of the text.
ContentToEnd(script, i) == Len(script) + 1

\* ([\s\S]*?)(?=\*\*Panel\s*\d+:\*\*|$): the content of the marker at place i
\* stops before the next marker, or at the end of the text.
ContentEnd(script, i) ==
    IF MarkersFrom(script, i + 1) = {} THEN Len(script) + 1
    ELSE First(MarkersFrom(script, i + 1))

\* extract_field(panel_content, "DIALOGUE") or "None"
Dialogue(panel_content) ==
    LET fields == SelectSeq(panel_content, LAMBDA p : p.kind = "dialogue")
    IN IF fields = <<>> THEN "None" ELSE fields[1].text

\* ComicPanel(id=int(match.group(1)), dialogue=...)
PanelRecord(script, i, end) ==
    [id |-> script[i].n, dialogue |-> Dialogue(SubSeq(script, i + 1, end - 1))]

RECURSIVE FindIter(_, _, _)
\* for match in re.finditer(panel_regex, script_text): the search goes on from
\* the end of the last match.
FindIter(script, from, acc) ==
    IF MarkersFrom(script, from) = {} THEN acc
    ELSE LET i == First(MarkersFrom(script, from))
             end == ContentEnd(script, i)
         IN FindIter(script, end, Append(acc, PanelRecord(script, i, end)))

ParseComicScript == Return([panels |-> FindIter(call, 1, <<>>), raised |-> FALSE])

InitParse ==
    /\ EmptyStore
    /\ call \in Scripts
    /\ result = <<>>

NextParse == ParseComicScript

SpecParse == InitParse /\ [][NextParse]_vars

\* C19: the panels returned are one for each marker of the text, in the order
\* of the markers, each with the number written in its marker; a text without
\* a marker gives the empty list; and no text makes the parser fail.
C19_OnePanelPerMarker ==
    result # <<>> =>
        LET markers == SelectSeq(call, LAMBDA p : p.kind = "marker")
        IN /\ ~result[1].raised
           /\ Len(result[1].panels) = Len(markers)
           /\ \A k \in 1..Len(markers) : result[1].panels[k].id = markers[k].n
           /\ markers = <<>> => result[1].panels = <<>>

\* Markers 2 and 5 with text between and around them give panels 2 and 5.
C19_Witness ==
    /\ result # <<>>
    /\ Len(call) = 4
    /\ call[1].kind = "text" /\ call[2] = Marker(2)
    /\ call[3].kind = "dialogue" /\ call[4] = Marker(5)
    /\ result[1].panels = <<[id |-> 2, dialogue |-> "Hello"], [id |-> 5, dialogue |-> "None"]>>

----------------------------------------------------------------------------
\* Panel numbers.  The module-saving handlers with panel lists of up to
\* MaxModulePanels panels, each with a panel_number of its own or none.

MaxModulePanels == 2

PanelLists == SeqsUpTo({NotGiven} \cup (1..MaxModulePanels), MaxModulePanels)

\* Teachers saving and deleting modules.
NextPanels ==
    \/ \E u \in UserIds, m \in ModuleIds, pnl \in PanelLists, exs \in LifecycleExercises :
           SaveModuleWithExercises(u, m, pnl, exs)
    \/ \E u \in UserIds : CreateModule(u)
    \/ \E u \in UserIds : SaveAllResults(u)
    \/ \E u \in UserIds : SaveModule(u)
    \/ \E u \in UserIds, m \in ModuleIds : DeleteModule(u, m)

SpecPanels == Init /\ [][NextPanels]_vars

\* C20: no two panels stored for a module have the same panel_number.
C20_PanelNumberUnique ==
    \A m \in DOMAIN panels :
        \A i, j \in 1..Len(panels[m]) : i # j => panels[m][i] # panels[m][j]

----------------------------------------------------------------------------
\* The parsing tiers of generate_training_exercises.  A call carries what
\* each tier would give on the response text: tier 1 what json.loads gives on
\* the extracted text, tier 2 what it gives on the repaired text, tier 3 what
\* parse_markdown_exercises gives.

\* json.loads on the extracted text: a list with records, an empty list,
\* another value with a length (an object or a string), a value without a
\* length (a number, true, false, null), or JSONDecodeError.
Tier1Outcomes == {"list", "empty_list", "sized", "scalar", "JSONDecodeError"}

\* json.loads on the repaired text, or an exception of the repair.
Tier2Outcomes == {"list", "empty_list", "sized", "error"}

\* parse_markdown_exercises: a list with records, an empty list, or an exception.
Tier3Outcomes == {"list", "empty_list", "error"}

TierCalls == [tier1 : Tier1Outcomes, tier2 : Tier2Outcomes, tier3 : Tier3Outcomes,
              num_questions : 1..MaxCandidates]

\* The parsing stage left by an exception.
ParseRaised(attempted, raised, carried) ==
    [exercises_data |-> "none", tier |-> 0, attempted |-> attempted,
     raised |-> raised, carried |-> carried]

\* exercises_data assigned by a tier; "if not exercises_data or not
\* isinstance(exercises_data, list)" after the tiers raises for what is no
\* list with records.
ParseAssigned(tier, outcome, attempted) ==
    [exercises_data |-> outcome, tier |-> tier, attempted |-> attempted,
     raised |-> IF outcome = "list" THEN "none" ELSE "invalid_format",
     carried |-> {}]

\* except Exception as fix_error: parse_markdown_exercises; an empty list is
\* raised as RuntimeError inside the try; except Exception as md_error raises
\* the RuntimeError that names original_error, fix_error and md_error.
MarkdownTier(c) ==
    IF c.tier3 = "list" THEN ParseAssigned(3, c.tier3, {1, 2, 3})
    ELSE ParseRaised({1, 2, 3}, "unparseable", {1, 2, 3})

\* except json.JSONDecodeError as json_err: the repairs and json.loads(fixed_json).
RepairTier(c) ==
    IF c.tier2 = "error" THEN MarkdownTier(c)
    ELSE ParseAssigned(2, c.tier2, {1, 2})

\* try: exercises_data = json.loads(clean_json_text); logger.info(f"...
\* {len(exercises_data)} exercises"): len() of a value without a length raises
\* TypeError, which the except clause of this try does not name.
ParseTiers(c) ==
    IF c.tier1 = "JSONDecodeError" THEN RepairTier(c)
    ELSE IF c.tier1 = "scalar" THEN ParseRaised({1}, "TypeError", {})
    ELSE ParseAssigned(1, c.tier1, {1})

ParseResponse == Return(ParseTiers(call))

InitTiers ==
    /\ EmptyStore
    /\ call \in TierCalls
    /\ result = <<>>

NextTiers == ParseResponse

SpecTiers == InitTiers /\ [][NextTiers]_vars

\* C21: the tiers run in the order 1, 2, 3, a tier only after every earlier
\* one failed; the first tier that gives a value supplies exercises_data; and
\* an exception leaves the parsing only after all three tiers were attempted,
\* carrying the errors of the three.
C21_FailureAfterThreeTiers ==
    result # <<>> =>
        LET r == result[1]
        IN /\ r.attempted \in {{1}, {1, 2}, {1, 2, 3}}
           /\ 2 \in r.attempted => call.tier1 = "JSONDecodeError"
           /\ 3 \in r.attempted => call.tier2 = "error"
           /\ r.tier # 0 => r.attempted = 1..r.tier
           /\ r.raised \in {"TypeError", "unparseable"}
                 => r.attempted = {1, 2, 3} /\ r.carried = {1, 2, 3}

----------------------------------------------------------------------------
\* Array extraction and repair.  The response text is a sequence of tokens:
\* the brackets and braces, the comma, a scalar member ("question",
\* "correct", "explanation": a key with a string or a number), the key of
\* the options member and the items of its array.  A call carries the
\* objects of the array, each as the sequence of its members' names, and
\* whether the closing bracket of the array was written.

MaxObjects == 3

ScalarMembers == {"question", "correct", "explanation"}

ObjectShapes ==
    {<<"question", "options", "correct", "explanation">>,
     <<"question", "correct", "explanation", "options">>,
     <<"options", "question">>,
     <<"question", "correct">>}

RepairCalls == [objects : SeqsUpTo(ObjectShapes, MaxObjects) \ {<<>>}, closed : BOOLEAN]

\* A member as it is written.
MemberText(name) ==
    IF name = "options" THEN <<"options:", "[", "items", "]">> ELSE <<name>>

RECURSIVE JoinTexts(_)
\* The texts of a list, with commas between them.
JoinTexts(texts) ==
    IF texts = <<>> THEN <<>>
    ELSE IF Len(texts) = 1 THEN texts[1]
    ELSE texts[1] \o <<",">> \o JoinTexts(Tail(texts))

\* An object as it is written.
ObjectText(members) ==
    <<"{">> \o JoinTexts([i \in 1..Len(members) |-> MemberText(members[i])]) \o <<"}">>

\* The response: the array of the objects, with or without its closing bracket.
ResponseText(c) ==
    <<"[">> \o JoinTexts([i \in 1..Len(c.objects) |-> ObjectText(c.objects[i])])
            \o (IF c.closed THEN <<"]">> ELSE <<>>)

\* The places of a token in a text.
Places(text, tok) == {i \in 1..Len(text) : text[i] = tok}

\* fixed_json.count(tok)
Count(text, tok) == Cardinality(Places(text, tok))

Greatest(places) == CHOOSE i \in places : \A j \in places : i >= j

\* re.search(r'\[[\s\S]*\]', response_text): from the first '[' to the last
\* ']' behind it; the whole text when there is no such span.
ExtractArray(text) ==
    LET closing == IF Places(text, "[") = {} THEN {}
                   ELSE {i \in Places(text, "]") : i > First(Places(text, "["))}
    IN IF closing = {} THEN text
       ELSE SubSeq(text, First(Places(text, "[")), Greatest(closing))

\* text * n
Repeat(tok, n) == [i \in 1..n |-> tok]

\* Fix 4: the deficit of '}' is appended, then the deficit of ']'.  (Fix 3
\* appends nothing: every string of the text is closed.)
RepairJson(text) ==
    LET open_braces == Count(text, "{")
        close_braces == Count(text, "}")
        open_brackets == Count(text, "[")
        close_brackets == Count(text, "]")
    IN text \o (IF open_braces > close_braces
                THEN Repeat("}", open_braces - close_braces) ELSE <<>>)
            \o (IF open_brackets > close_brackets
                THEN Repeat("]", open_brackets - close_brackets) ELSE <<>>)

\* The token at place i, "" behind the end.
At(text, i) == IF i \in 1..Len(text) THEN text[i] ELSE ""

DecodeError == [ok |-> FALSE, value |-> <<>>]

RECURSIVE DecodeMembers(_, _, _)
\* The members of an object from place i on: the members and the place behind
\* the closing brace, or an error.
DecodeMembers(text, i, acc) ==
    LET name == IF At(text, i) \in ScalarMembers THEN At(text, i)
                ELSE IF /\ At(text, i) = "options:" /\ At(text, i + 1) = "["
                        /\ At(text, i + 2) = "items" /\ At(text, i + 3) = "]"
                THEN "options" ELSE ""
        next == IF name = "options" THEN i + 4 ELSE i + 1
    IN IF name = "" THEN [ok |-> FALSE, value |-> <<>>, next |-> i]
       ELSE IF At(text, next) = "," THEN DecodeMembers(text, next + 1, Append(acc, name))
       ELSE IF At(text, next) = "}" THEN [ok |-> TRUE, value |-> Append(acc, name), next |-> next + 1]
       ELSE [ok |-> FALSE, value |-> <<>>, next |-> next]

RECURSIVE DecodeObjects(_, _, _)
\* The objects of an array from place i on, up to the closing bracket, which
\* ends the text.
DecodeObjects(text, i, acc) ==
    IF At(text, i) # "{" THEN DecodeError
    ELSE LET obj == DecodeMembers(text, i + 1, <<>>)
         IN IF ~obj.ok THEN DecodeError
            ELSE IF At(text, obj.next) = ","
            THEN DecodeObjects(text, obj.next + 1, Append(acc, obj.value))
            ELSE IF At(text, obj.next) = "]" /\ obj.next = Len(text)
            THEN [ok |-> TRUE, value |-> Append(acc, obj.value)]
            ELSE DecodeError

\* json.loads of a text that is an array of objects.
JsonLoads(text) ==
    IF At(text, 1) = "[" THEN DecodeObjects(text, 2, <<>>) ELSE DecodeError

\* The extraction, json.loads, and the repairs with json.loads when it fails.
ExtractAndDecode(c) ==
    LET clean_json_text == ExtractArray(ResponseText(c))
        direct == JsonLoads(clean_json_text)
        fixed == JsonLoads(RepairJson(clean_json_text))
    IN IF direct.ok THEN [ok |-> TRUE, value |-> direct.value, tier |-> 1]
       ELSE [ok |-> fixed.ok, value |-> fixed.value, tier |-> 2]

DecodeResponse == Return(ExtractAndDecode(call))

InitRepair ==
    /\ EmptyStore
    /\ call \in RepairCalls
    /\ result = <<>>

NextRepair == DecodeResponse

SpecRepair == InitRepair /\ [][NextRepair]_vars

\* C22: for an array of complete objects written without its closing
\* bracket, the extraction and the repairs give a text that decodes to the
\* objects of the input, each with all its members.
C22_RepairKeepsObjects ==
    (result # <<>> /\ ~call.closed) =>
        /\ result[1].ok
        /\ result[1].value = call.objects

----------------------------------------------------------------------------
\* extract_field.  A panel span is a sequence of tokens: a label
\* ("**DIALOGUE:**"), a line break, or a run of other text on one line.

MaxSpanTokens == 4

FieldNames == {"DIALOGUE", "NARRATION", "COMPOSITION"}

Label(field_name) == "**" \o field_name \o ":**"

Labels == {Label(f) : f \in FieldNames}

LineBreak == "\n"

SpanTokens == Labels \cup {LineBreak, "Hello", "rain"}

Spans == SeqsUpTo(SpanTokens, MaxSpanTokens)

\* ... or "None", or "", or "medium shot": the value used for an empty one.
DefaultValue(field_name) ==
    IF field_name = "DIALOGUE" THEN <<"None">>
    ELSE IF field_name = "COMPOSITION" THEN <<"medium shot">>
    ELSE <<>>

RECURSIVE Strip(_)
\* str.strip(): the line breaks at both ends are removed.
Strip(text) ==
    IF text = <<>> THEN <<>>
    ELSE IF Head(text) = LineBreak THEN Strip(Tail(text))
    ELSE IF text[Len(text)] = LineBreak THEN Strip(SubSeq(text, 1, Len(text) - 1))
    ELSE text

RECURSIVE SkipSpace(_, _)
\* \s*: the place of the first token at or behind i that is no line break.
SkipSpace(span, i) ==
    IF i <= Len(span) /\ span[i] = LineBreak THEN SkipSpace(span, i + 1) ELSE i

RECURSIVE LineEnd(_, _)
\* [^\n]*: the place behind the last token of the line that holds place i.
LineEnd(span, i) ==
    IF i <= Len(span) /\ span[i] # LineBreak THEN LineEnd(span, i + 1) ELSE i

RECURSIVE CaptureEnd(_, _)
\* (?:\n(?!\s*\*\*)[^\n]*)*: from the line break at place i the capture takes
\* the next line unless a label is the first thing behind the white space.
CaptureEnd(span, i) ==
    IF i > Len(span) THEN i
    ELSE IF At(span, SkipSpace(span, i + 1)) \in Labels THEN i
    ELSE CaptureEnd(span, LineEnd(span, i + 1))

\* extract_field(panel_content, field_name) or the default: re.search finds
\* the first label, \s* passes the white space behind it, line breaks
\* included, and the group takes the rest of that line and the lines after it.
ExtractField(span, field_name) ==
    IF Places(span, Label(field_name)) = {} THEN DefaultValue(field_name)
    ELSE LET start == SkipSpace(span, First(Places(span, Label(field_name))) + 1)
             end == CaptureEnd(span, LineEnd(span, start))
             value == Strip(SubSeq(span, start, end - 1))
         IN IF value = <<>> THEN DefaultValue(field_name) ELSE value

ExtractFields == Return([f \in FieldNames |-> ExtractField(call, f)])

InitFields ==
    /\ EmptyStore
    /\ call \in Spans
    /\ result = <<>>

NextFields == ExtractFields

SpecFields == InitFields /\ [][NextFields]_vars

\* C23: the value of a field is the trimmed text between its label and the
\* next label or the end of the span, and the default when the label is
\* absent or that text is empty; it holds no label.
C23_FieldStopsAtNextLabel ==
    result # <<>> =>
        \A f \in FieldNames :
            LET at == Places(call, Label(f))
                from == First(at)
                later == {j \in (from + 1)..Len(call) : call[j] \in Labels}
                to == IF later = {} THEN Len(call) + 1 ELSE First(later)
                between == Strip(SubSeq(call, from + 1, to - 1))
            IN /\ result[1][f] = IF at = {} \/ between = <<>>
                                 THEN DefaultValue(f) ELSE between
               /\ \A k \in 1..Len(result[1][f]) : result[1][f][k] \notin Labels

----------------------------------------------------------------------------
\* The difficulty of a candidate record.  A call carries a candidate and the
\* value under its "difficulty" key: no key, a string, null or a number.

NoKey == [type |-> "absent", text |-> ""]

Str(s) == [type |-> "str", text |-> s]

DifficultyValues ==
    {NoKey, Str("beginner"), Str("medium"), Str("advanced"), Str("ADVANCED"),
     Str("expert"), Str(""), [type |-> "null", text |-> ""], [type |-> "int", text |-> "3"]}

DifficultyCalls == [candidate : CandidateRecords, difficulty : DifficultyValues]

DifficultyLevels == {"beginner", "medium", "advanced"}

\* str.lower()
Lower(s) == IF s = "ADVANCED" THEN "advanced" ELSE s

\* ex_data.get("difficulty", "medium"): the default stands in for a missing
\* key only.
GetDifficulty(d) == IF d = NoKey THEN Str("medium") ELSE d

\* .lower() on a value that is no string raises AttributeError.
LowerRaises(d) == GetDifficulty(d).type # "str"

\* if difficulty not in ["beginner", "medium", "advanced"]: difficulty = "medium"
CoercedDifficulty(d) ==
    IF Lower(GetDifficulty(d).text) \in DifficultyLevels
    THEN Lower(GetDifficulty(d).text) ELSE "medium"

\* One round of the validation loop for a candidate with a difficulty: the
\* checks of the other fields, the difficulty, the Exercise constructor; an
\* exception of any of them is caught and the record skipped.  difficulty is
\* the value handed to the constructor.
ValidateWithDifficulty(c) ==
    IF ~Accepts(c.candidate) \/ LowerRaises(c.difficulty)
    THEN [accepted |-> FALSE, difficulty |-> ""]
    ELSE [accepted |-> TRUE, difficulty |-> CoercedDifficulty(c.difficulty)]

ValidateCandidate == Return(ValidateWithDifficulty(call))

InitDifficulty ==
    /\ EmptyStore
    /\ call \in DifficultyCalls
    /\ result = <<>>

NextDifficulty == ValidateCandidate

SpecDifficulty == InitDifficulty /\ [][NextDifficulty]_vars

\* C24: a candidate that the loop accepts without a difficulty, given a
\* difficulty that is present and is none of beginner, medium, advanced, is
\* accepted with the difficulty medium.
C24_InvalidDifficultyCoerced ==
    (/\ result # <<>>
     /\ Accepts(call.candidate)
     /\ call.difficulty # NoKey
     /\ ~(call.difficulty.type = "str" /\ call.difficulty.text \in DifficultyLevels))
        => (result[1].accepted /\ result[1].difficulty = "medium")

----------------------------------------------------------------------------
\* Badges.  A call carries the statistics of one student: the number of
\* completed modules, the accuracy in units of 10^-2 percent, as round(x, 2)
\* gives it, and the total score.

MaxCompleted == 11

MasterLearnerModules == 10
DedicatedStudentModules == 5
FirstStepsModules == 1
PerfectAccuracy == 90
HighAchieverAccuracy == 80
ScoreChampionPoints == 1000
RisingStarPoints == 500

\* Percent in the unit of the accuracy.
Percent(n) == n * 10 ^ LeaderboardDecimals

AccuracyValues == {0, Percent(80) - 1, Percent(80), Percent(90) - 1, Percent(90), Percent(100)}

ScoreTotals == {0, 490, 500, 990, 1000, 1010}

Statistics == [completed : 0..MaxCompleted, accuracy : AccuracyValues, total_score : ScoreTotals]

\* Badges chosen with "if" in the place of every "elif".
LeaderboardBadgesAll(s) ==
    (IF s.completed >= MasterLearnerModules THEN <<"Master Learner">> ELSE <<>>)
    \o (IF s.completed >= DedicatedStudentModules THEN <<"Dedicated Student">> ELSE <<>>)
    \o (IF s.completed >= FirstStepsModules THEN <<"First Steps">> ELSE <<>>)
    \o (IF s.accuracy >= Percent(PerfectAccuracy) THEN <<"Perfect Accuracy">> ELSE <<>>)
    \o (IF s.accuracy >= Percent(HighAchieverAccuracy) THEN <<"High Achiever">> ELSE <<>>)
    \o (IF s.total_score >= ScoreChampionPoints THEN <<"Score Champion">> ELSE <<>>)
    \o (IF s.total_score >= RisingStarPoints THEN <<"Rising Star">> ELSE <<>>)

\* leaderboard.get_leaderboard: badges.
LeaderboardBadges(s) ==
    (IF s.completed >= MasterLearnerModules THEN <<"Master Learner">>
     ELSE IF s.completed >= DedicatedStudentModules THEN <<"Dedicated Student">>
     ELSE IF s.completed >= FirstStepsModules THEN <<"First Steps">>
     ELSE <<>>)
    \o (IF s.accuracy >= Percent(PerfectAccuracy) THEN <<"Perfect Accuracy">>
        ELSE IF s.accuracy >= Percent(HighAchieverAccuracy) THEN <<"High Achiever">>
        ELSE <<>>)
    \o (IF s.total_score >= ScoreChampionPoints THEN <<"Score Champion">>
        ELSE IF s.total_score >= RisingStarPoints THEN <<"Rising Star">>
        ELSE <<>>)

\* training.get_leaderboard: badges.
TrainingBadges(s) ==
    (IF s.completed >= 10 THEN <<"Master Learner">>
     ELSE IF s.completed >= 5 THEN <<"Dedicated Student">>
     ELSE IF s.completed >= 1 THEN <<"First Steps">>
     ELSE <<>>)
    \o (IF s.accuracy >= Percent(90) THEN <<"Perfect Accuracy">>
        ELSE IF s.accuracy >= Percent(80) THEN <<"High Achiever">>
        ELSE <<>>)
    \o (IF s.total_score >= 1000 THEN <<"Score Champion">>
        ELSE IF s.total_score >= 500 THEN <<"Rising Star">>
        ELSE <<>>)

\* Reports.generate_achievement_summary_report: badges.
ReportBadges(s) ==
    (IF s.completed >= 10 THEN <<"Master Learner">>
     ELSE IF s.completed >= 5 THEN <<"Dedicated Student">>
     ELSE IF s.completed >= 1 THEN <<"First Steps">>
     ELSE <<>>)
    \o (IF s.accuracy >= Percent(90) THEN <<"Perfect Accuracy">>
        ELSE IF s.accuracy >= Percent(80) THEN <<"High Achiever">>
        ELSE <<>>)
    \o (IF s.total_score >= 1000 THEN <<"Score Champion">>
        ELSE IF s.total_score >= 500 THEN <<"Rising Star">>
        ELSE <<>>)

GetLeaderboardBadges == Return([place |-> "leaderboard", badges |-> LeaderboardBadges(call)])

GetTrainingLeaderboardBadges == Return([place |-> "training", badges |-> TrainingBadges(call)])

GetReportBadges == Return([place |-> "report", badges |-> ReportBadges(call)])

InitBadges ==
    /\ EmptyStore
    /\ call \in Statistics
    /\ result = <<>>

NextBadges ==
    \/ GetLeaderboardBadges
    \/ GetTrainingLeaderboardBadges
    \/ GetReportBadges

SpecBadges == InitBadges /\ [][NextBadges]_vars

\* C25: the badge list holds, in the order completion, accuracy, score, for
\* each category the badge with the highest threshold that the statistic
\* reaches and no other, so at most three badges; and the three places give
\* the same list for the same statistics.
C25_OneBadgePerCategory ==
    result # <<>> =>
        LET completion == {[at |-> 10, badge |-> "Master Learner"],
                           [at |-> 5, badge |-> "Dedicated Student"],
                           [at |-> 1, badge |-> "First Steps"]}
            accuracy == {[at |-> 9000, badge |-> "Perfect Accuracy"],
                         [at |-> 8000, badge |-> "High Achiever"]}
            score == {[at |-> 1000, badge |-> "Score Champion"],
                      [at |-> 500, badge |-> "Rising Star"]}
            Names(category) == {b.badge : b \in category}
            Best(category, v) ==
                LET met == {b \in category : v >= b.at}
                IN IF met = {} THEN <<>>
                   ELSE <<(CHOOSE b \in met : \A o \in met : o.at <= b.at).badge>>
            got == result[1].badges
            Held(category) == {k \in 1..Len(got) : got[k] \in Names(category)}
        IN /\ got = Best(completion, call.completed) \o Best(accuracy, call.accuracy)
                        \o Best(score, call.total_score)
           /\ Len(got) <= 3
           /\ \A category \in {completion, accuracy, score} : Cardinality(Held(category)) <= 1
           /\ got = LeaderboardBadges(call)
           /\ got = TrainingBadges(call)
           /\ got = ReportBadges(call)

\* A student with 10 modules, 90 percent and 1000 points holds the three
\* highest badges and none of the lower ones.
C25_Witness ==
    /\ result # <<>>
    /\ call = [completed |-> 10, accuracy |-> 9000, total_score |-> 1000]
    /\ result[1].place = "leaderboard"
    /\ result[1].badges = <<"Master Learner", "Perfect Accuracy", "Score Champion">>

----------------------------------------------------------------------------
\* Comparative analysis.  A call carries all_progress after the filters: the
\* progress records of students, in the order of the select.

MaxCompared == 3

ComparedStudents == 1..2

ComparedModules == {"m1", "m2"}

\* A Tuesday and the Tuesday evening of the week after.
ComparedStarts == {1 * TicksPerDay, (DaysPerWeek + 1) * TicksPerDay + 1}

ComparedScores == {10, 20}

ComparedProgress ==
    [user : ComparedStudents, module : ComparedModules, started_at : ComparedStarts,
     total_score : ComparedScores, completed : BOOLEAN]

ComparativeCalls == SeqsUpTo(ComparedProgress, MaxCompared)

\* week_start.strftime('%Y-%m-%d') of the Monday of the record's week; the
\* order of these strings is the order of the dates.
WeekKey(p) == DateOf(MinusDays(p.started_at, Weekday(p.started_at)))

\* The key of a record's group: student_id, module_id or week_key.
KeyOf(p, comparison_type) ==
    IF comparison_type = "students" THEN p.user
    ELSE IF comparison_type = "modules" THEN p.module
    ELSE WeekKey(p)

\* The entry a dict holds for a key after the loop over all_progress.
GroupOf(all_progress, comparison_type, k) ==
    LET members == SelectSeq(all_progress, LAMBDA p : KeyOf(p, comparison_type) = k)
        Sum[i \in 0..Len(members)] ==
            IF i = 0 THEN 0 ELSE Sum[i - 1] + members[i].total_score
        attempts == Len(members)
    IN [key |-> k,
        total_attempts |-> attempts,
        completed_count |-> Len(SelectSeq(members, LAMBDA p : p.completed)),
        total_score |-> Sum[attempts],
        avg_score |-> RoundTo(Sum[attempts], attempts, LeaderboardDecimals),
        student_count |-> Cardinality({members[i].user : i \in 1..attempts})]

RECURSIVE KeysInOrder(_, _, _)
\* The keys of the dict, in the order of their first record.
KeysInOrder(all_progress, comparison_type, seen) ==
    IF all_progress = <<>> THEN seen
    ELSE LET k == KeyOf(Head(all_progress), comparison_type)
         IN KeysInOrder(Tail(all_progress), comparison_type,
                        IF \E i \in 1..Len(seen) : seen[i] = k THEN seen
                        ELSE Append(seen, k))

\* list(student_data.values()), and the same of module_data and time_data.
Groups(all_progress, comparison_type) ==
    LET keys == KeysInOrder(all_progress, comparison_type, <<>>)
    IN [i \in 1..Len(keys) |-> GroupOf(all_progress, comparison_type, keys[i])]

RECURSIVE InsertByAvgScore(_, _)
InsertByAvgScore(sorted, e) ==
    IF sorted = <<>> THEN <<e>>
    ELSE IF Head(sorted).avg_score < e.avg_score THEN <<e>> \o sorted
    ELSE <<Head(sorted)>> \o InsertByAvgScore(Tail(sorted), e)

RECURSIVE SortByAvgScore(_, _)
\* comparison_data.sort(key=lambda x: x['avg_score'], reverse=True)
SortByAvgScore(sorted, rest) ==
    IF rest = <<>> THEN sorted
    ELSE SortByAvgScore(InsertByAvgScore(sorted, Head(rest)), Tail(rest))

RECURSIVE InsertByPeriod(_, _)
InsertByPeriod(sorted, e) ==
    IF sorted = <<>> THEN <<e>>
    ELSE IF Head(sorted).key > e.key THEN <<e>> \o sorted
    ELSE <<Head(sorted)>> \o InsertByPeriod(Tail(sorted), e)

RECURSIVE SortByPeriod(_, _)
\* comparison_data.sort(key=lambda x: x['period'])
SortByPeriod(sorted, rest) ==
    IF rest = <<>> THEN sorted
    ELSE SortByPeriod(InsertByPeriod(sorted, Head(rest)), Tail(rest))

\* generate_comparative_analysis_report: report_data of one comparison_type.
ComparativeReport(all_progress, comparison_type) ==
    LET comparison_data ==
            IF comparison_type = "students"
            THEN SortDesc(<<>>, Groups(all_progress, comparison_type))
            ELSE IF comparison_type = "modules"
            THEN SortByAvgScore(<<>>, Groups(all_progress, comparison_type))
            ELSE SortByPeriod(<<>>, Groups(all_progress, comparison_type))
    IN [comparison_type |-> comparison_type,
        data |-> comparison_data,
        total_records |-> Len(comparison_data)]

CompareStudents == Return(ComparativeReport(call, "students"))

CompareModules == Return(ComparativeReport(call, "modules"))

CompareTime == Return(ComparativeReport(call, "time"))

InitComparative ==
    /\ EmptyStore
    /\ call \in ComparativeCalls
    /\ result = <<>>

NextComparative ==
    \/ CompareStudents
    \/ CompareModules
    \/ CompareTime

SpecComparative == InitComparative /\ [][NextComparative]_vars

\* data is in descending order of the field the grouping is sorted by.
DescendingBy(data, comparison_type) ==
    \A i \in 1..Len(data), j \in 1..Len(data) :
        i < j =>
            IF comparison_type = "students"
            THEN data[i].total_score >= data[j].total_score
            ELSE data[i].avg_score >= data[j].avg_score

\* C26: the groups of the comparative analysis report are in descending order
\* of avg_score for the module grouping and for the time grouping, and in
\* descending order of total_score for the student grouping.
C26_GroupsSortedDescending ==
    result # <<>> => DescendingBy(result[1].data, result[1].comparison_type)

\* The order the code gives the student and the module grouping.
StudentsAndModulesDescending ==
    (result # <<>> /\ result[1].comparison_type # "time")
        => DescendingBy(result[1].data, result[1].comparison_type)

\* The order of the time grouping: ascending week.
TimeAscendingByWeek ==
    (result # <<>> /\ result[1].comparison_type = "time")
        => \A i \in 1..Len(result[1].data), j \in 1..Len(result[1].data) :
               i < j => result[1].data[i].key < result[1].data[j].key

----------------------------------------------------------------------------
\* ComfyUIService._wait_for_completion.  call is the frame of the coroutine: the
\* statement it is at, the loop variable, and the counts of the sleeps made, of
\* the history polls issued and of the polls whose history had an image for the
\* save node.  result is what the coroutine returned or raised.

max_attempts == 60

SleepSeconds == 5

\* range(max_attempts) with one attempt more.
AttemptsOneMore == 0..max_attempts

\* range(max_attempts)
Attempts == 0..(max_attempts - 1)

\* A history without the prompt, and one with the prompt and no image of the
\* save node.
PollAgainResponses == {"not_in_history", "no_images"}

WaitFrame(at, attempt, sleeps, polls, images, history) ==
    [at |-> at, attempt |-> attempt, sleeps |-> sleeps, polls |-> polls,
     images |-> images, history |-> history]

\* for attempt in range(max_attempts): await asyncio.sleep(5)
Sleep ==
    /\ call.at = "for"
    /\ call.attempt \in Attempts
    /\ call' = [call EXCEPT !.at = "get", !.sleeps = @ + 1]
    /\ UNCHANGED <<result, tables>>

\* The history says nothing to fetch: the next iteration.
PollAgain ==
    /\ call.at = "get"
    /\ \E history \in PollAgainResponses :
           call' = [call EXCEPT !.at = "for", !.attempt = @ + 1, !.polls = @ + 1,
                                !.history = history]
    /\ UNCHANGED <<result, tables>>

\* The history has an image for the save node.
PollImage ==
    /\ call.at = "get"
    /\ call' = [call EXCEPT !.at = "view", !.polls = @ + 1, !.images = @ + 1,
                            !.history = "images"]
    /\ UNCHANGED <<result, tables>>

\* client.get or response.json() raises: nothing in the loop catches it.
PollRaises ==
    /\ call.at = "get"
    /\ call' = [call EXCEPT !.at = "end", !.polls = @ + 1, !.history = "raised"]
    /\ result' = <<"HTTPError">>
    /\ UNCHANGED tables

\* The download of the image: return img_response.content
Download ==
    /\ call.at = "view"
    /\ call' = [call EXCEPT !.at = "end"]
    /\ result' = <<"image">>
    /\ UNCHANGED tables

\* img_response.raise_for_status() raises.
DownloadRaises ==
    /\ call.at = "view"
    /\ call' = [call EXCEPT !.at = "end"]
    /\ result' = <<"HTTPStatusError">>
    /\ UNCHANGED tables

\* The loop is exhausted: raise TimeoutError
Timeout ==
    /\ call.at = "for"
    /\ call.attempt \notin Attempts
    /\ call' = [call EXCEPT !.at = "end"]
    /\ result' = <<"TimeoutError">>
    /\ UNCHANGED tables

InitWait ==
    /\ EmptyStore
    /\ call = WaitFrame("for", 0, 0, 0, 0, "none")
    /\ result = <<>>

NextWait ==
    \/ Sleep
    \/ PollAgain
    \/ PollImage
    \/ PollRaises
    \/ Download
    \/ DownloadRaises
    \/ Timeout

\* Every await of the coroutine completes: the sleep after its five seconds, a
\* request of the client with its response or at the client's timeout.
SpecWait == InitWait /\ [][NextWait]_vars /\ WF_vars(NextWait)

\* The seconds slept so far.
Slept == call.sleeps * SleepSeconds

WaitBounded ==
    /\ call.polls <= max_attempts
    /\ call.polls <= call.sleeps
    /\ call.sleeps <= call.polls + 1
    /\ Slept <= max_attempts * SleepSeconds
    /\ call.images <= 1
    /\ call.images = 1 => call.at \in {"view", "end"} /\ call.history = "images"
    /\ call.at = "view" => call.images = 1
    /\ result = <<"image">> => call.images = 1 /\ call.polls = call.attempt + 1
    /\ result = <<"TimeoutError">> =>
           call.images = 0 /\ call.polls = max_attempts /\ call.sleeps = max_attempts
    /\ (call.at = "for" /\ call.polls > 0) => call.history \in PollAgainResponses

\* C27: the wait ends; it issues at most max_attempts history polls, each after
\* one sleep of the fixed interval; a history without the prompt or without an
\* image leads to the next poll; the first poll whose history has an image for
\* the save node is the last one, and the image bytes are returned from it (the
\* download succeeding); TimeoutError is raised only after max_attempts polls
\* without an image.
C27_PollingTerminates == []WaitBounded /\ <>(result # <<>>)

C27_Witness ==
    /\ result = <<"TimeoutError">>
    /\ call.polls = max_attempts
    /\ Slept = max_attempts * SleepSeconds

\* The image is returned from a poll that came after polls without one.
ImageAfterPending ==
    /\ result = <<"image">>
    /\ call.polls = 3

----------------------------------------------------------------------------
\* delete_exercise with its response body, on a module with two exercises.

\* Some UserAnswer row has exercise e.
Referenced(e) ==
    \E p \in DOMAIN answers : \E i \in 1..Len(answers[p]) : answers[p][i].exercise = e

\* The body returned when answers_count > 0.
CannotDelete == [success |-> FALSE, can_delete |-> FALSE]

\* The body returned after exercise.delete().
Deleted == [success |-> TRUE]

\* DELETE /api/modules/exercises/{exercise_id}, the body of the response in result.
DeleteExerciseCall(a, e) ==
    /\ Authenticated(a)
    /\ UNCHANGED <<users, modules, panels, store, pc, req, writer, tx, call>>
    /\ IF ~IsActiveTeacher(a)
       THEN last' = 403 /\ result' = <<[detail |-> "Teacher access required"]>>
            /\ UNCHANGED exercises
       ELSE IF e \notin DOMAIN exercises
       THEN last' = 404 /\ result' = <<[detail |-> "Exercise not found"]>>
            /\ UNCHANGED exercises
       ELSE IF AnswersCount(e) > 0
       THEN last' = 200 /\ result' = <<CannotDelete>> /\ UNCHANGED exercises
       ELSE /\ exercises' = Restrict(exercises, DOMAIN exercises \ {e})
            /\ last' = 200
            /\ result' = <<Deleted>>

\* Module m1 has the exercises e1 and e2; nobody has answered yet.
InitExercises ==
    /\ users = [u \in UserIds |-> [role |-> IF u \in Teachers THEN "teacher" ELSE "student",
                                   is_active |-> TRUE]]
    /\ modules = {"m1", "m2"}
    /\ panels = ("m1" :> <<1>>) @@ ("m2" :> <<>>)
    /\ exercises = [e \in ExerciseIds |-> [module |-> "m1", options |-> 2, correct_answer |-> 0]]
    /\ progress = <<>>
    /\ answers = <<>>
    /\ nextPid = 1
    /\ last = 200
    /\ pc = [r \in Requests |-> "idle"]
    /\ req = [r \in Requests |-> <<>>]
    /\ writer = NoWriter
    /\ tx = NoTables
    /\ call = <<>>
    /\ result = <<>>

NextExercises ==
    \/ \E u \in UserIds, m \in ModuleIds, d \in BasicSubmissions : SaveStudentAnswers(u, m, d)
    \/ \E a \in UserIds, e \in ExerciseIds : DeleteExerciseCall(a, e)

SpecExercises == InitExercises /\ [][NextExercises]_vars

\* C28: delete_exercise called by an active teacher on a stored exercise removes
\* it exactly when no UserAnswer row references it; when one does, the response
\* says failure and the exercise stays; the answers and the progress rows are
\* left as they were; answers to other exercises of the module do not matter.
C28_DeletedIffUnanswered ==
    [][\A a \in UserIds, e \in ExerciseIds :
          (DeleteExerciseCall(a, e) /\ IsActiveTeacher(a) /\ e \in DOMAIN exercises) =>
              /\ (e \notin DOMAIN exercises') <=> ~Referenced(e)
              /\ Referenced(e) => (result' = <<CannotDelete>> /\ exercises' = exercises)
              /\ ~Referenced(e) =>
                     /\ result' = <<Deleted>>
                     /\ DOMAIN exercises' = DOMAIN exercises \ {e}
                     /\ \A o \in DOMAIN exercises' : exercises'[o] = exercises[o]
              /\ answers' = answers
              /\ progress' = progress]_vars

\* e2 was deleted and its sibling e1, with an answer, is stored.
C28_Witness ==
    /\ result = <<Deleted>>
    /\ DOMAIN exercises = {"e1"}
    /\ Referenced("e1")
    /\ ~Referenced("e2")

\* A deletion was refused.
DeletionRefused ==
    /\ result = <<CannotDelete>>
    /\ Referenced("e1")
    /\ "e1" \in DOMAIN exercises

----------------------------------------------------------------------------
\* The UserAnswer rows of progress record p whose is_correct is true.
CorrectRows(p) == Len(SelectSeq(answers[p], LAMBDA a : a.is_correct = TRUE))

\* C29: the counters of every progress record agree with its answer rows:
\* total_questions is the number of its UserAnswer rows and correct_answers the
\* number of those with is_correct true.
C29_CountersMatchRows ==
    \A p \in DOMAIN progress :
        /\ progress[p].total_questions = Len(answers[p])
        /\ progress[p].correct_answers = CorrectRows(p)

----------------------------------------------------------------------------
\* The statuses of a request refused at authentication or authorisation.
Rejections == {401, 403}

\* C30: a request made with the token of an account whose is_active is false is
\* rejected and writes nothing, until the account is active again.
C30_InactiveAccountRejected ==
    [][\A u \in Accounts, m \in ModuleIds, d \in BasicSubmissions :
          (SaveStudentAnswers(u, m, d) /\ ~users[u].is_active) =>
              (last' \in Rejections /\ UNCHANGED store)]_vars

====
